---- MODULE Spec2Model ----
(***************************************************************************)
(* Table normalisation and pricing engine of KosztorysyAI                  *)
(* (src/services/pricingCalculator.ts).                                    *)
(*                                                                         *)
(* A string is a sequence of characters.  A character is a one-letter TLA+ *)
(* string; the letters outside ASCII are written as two-letter tokens:     *)
(*   "a_" a-ogonek   "e_" e-ogonek   "o'" o-acute   "s'" s-acute           *)
(*   "c'" c-acute    "n'" n-acute    "l/" l-stroke  "z'" z-acute           *)
(*   "z." z-dot      "--" em dash    (capital first letter = upper case)   *)
(* Column indices are 0-based as in the source and -1 is "unresolved".     *)
(* An option the caller leaves undefined is a field the options record     *)
(* does not have; a regular expression that does not match yields <<>>.    *)
(*                                                                         *)
(* Money is an integer number of grosz (0.01 PLN).  A gross amount before  *)
(* rounding is an integer number of 0.0001 PLN (grosz * 100).              *)
(*                                                                         *)
(* Spec and SpecCells take the call as one step on values.  SpecHeap takes *)
(* the same call on a heap of objects, where a table, an array of strings  *)
(* and an array of rows each have an address, a copy is a new object and a *)
(* write changes the object at an address, whoever else refers to it.      *)
(* SpecApp is the App component (src/services/geminiService.ts): its state *)
(* in the record app, one action for every handler, each with the effect   *)
(* that its render runs.  There null is <<>> and a value v is <<v>>.       *)
(***************************************************************************)
EXTENDS Integers, Sequences, FiniteSets, TLC

VARIABLES rawTables, options, pc, processedTables, totals, heap, frame, app

vars == <<rawTables, options, pc, processedTables, totals, heap, frame, app>>

-----------------------------------------------------------------------------
(* JavaScript values and string primitives                                 *)

LowerLetters ==
  <<"a", "b", "c", "d", "e", "f", "g", "h", "i", "j", "k", "l", "m", "n", "o",
    "p", "q", "r", "s", "t", "u", "v", "w", "x", "y", "z",
    "a_", "c'", "e_", "l/", "n'", "o'", "s'", "z'", "z.">>

UpperLetters ==
  <<"A", "B", "C", "D", "E", "F", "G", "H", "I", "J", "K", "L", "M", "N", "O",
    "P", "Q", "R", "S", "T", "U", "V", "W", "X", "Y", "Z",
    "A_", "C'", "E_", "L/", "N'", "O'", "S'", "Z'", "Z.">>

Digits == <<"0", "1", "2", "3", "4", "5", "6", "7", "8", "9">>

Range(s) == {s[i] : i \in DOMAIN s}

DigitSet == Range(Digits)

\* \w of a regular expression without the u flag: ASCII letters, digits, "_"
WordChars ==
  {LowerLetters[i] : i \in 1..26} \cup {UpperLetters[i] : i \in 1..26}
    \cup DigitSet \cup {"_"}

\* \s of a regular expression, restricted to the white space of the alphabet
WhiteSpace == {" ", "\n", "\t", "\r"}

LowerOf ==
  [c \in Range(UpperLetters) |->
     LowerLetters[CHOOSE i \in DOMAIN UpperLetters : UpperLetters[i] = c]]

DigitValue == [c \in DigitSet |-> (CHOOSE i \in DOMAIN Digits : Digits[i] = c) - 1]

toLowerCaseChar(c) == IF c \in DOMAIN LowerOf THEN LowerOf[c] ELSE c

\* (SubSeq makes the result a sequence value)
toLowerCase(s) == SubSeq([i \in 1..Len(s) |-> toLowerCaseChar(s[i])], 1, Len(s))

\* (s[i] || "") of the source for a 0-based index i: a cell outside the
\* sequence is undefined and reads as the empty string
CellAt(s, i) == IF i >= 0 /\ i < Len(s) THEN s[i + 1] ELSE <<>>

includes(s, sub) ==
  \E i \in 0..(Len(s) - Len(sub)) : \A j \in 1..Len(sub) : s[i + j] = sub[j]

endsWith(s, suffix) ==
  /\ Len(s) >= Len(suffix)
  /\ \A j \in 1..Len(suffix) : s[Len(s) - Len(suffix) + j] = suffix[j]

trim(s) ==
  LET keep == {i \in DOMAIN s : s[i] \notin WhiteSpace}
  IN  IF keep = {} THEN <<>>
      ELSE SubSeq(s, CHOOSE i \in keep : \A j \in keep : i <= j,
                     CHOOSE i \in keep : \A j \in keep : i >= j)

RECURSIVE join(_, _)
join(row, sep) ==
  IF Len(row) = 0 THEN <<>>
  ELSE IF Len(row) = 1 THEN row[1]
  ELSE row[1] \o sep \o join(Tail(row), sep)

\* the length of the longest run of digits of s that starts at 1-based position p
RECURSIVE DigitRun(_, _)
DigitRun(s, p) ==
  IF p <= Len(s) /\ s[p] \in DigitSet THEN 1 + DigitRun(s, p + 1) ELSE 0

\* the length of the longest run of white space of s that starts at position p
RECURSIVE SpaceRun(_, _)
SpaceRun(s, p) ==
  IF p <= Len(s) /\ s[p] \in WhiteSpace THEN 1 + SpaceRun(s, p + 1) ELSE 0

\* parseInt(ds, 10) for a non-empty sequence of digits ds
RECURSIVE parseInt(_)
parseInt(ds) ==
  IF Len(ds) = 0 THEN 0
  ELSE 10 * parseInt(SubSeq(ds, 1, Len(ds) - 1)) + DigitValue[ds[Len(ds)]]

\* n.toString() for a natural number n
RECURSIVE toString(_)
toString(n) ==
  IF n < 10 THEN <<Digits[n + 1]>>
  ELSE toString(n \div 10) \o <<Digits[(n % 10) + 1]>>

\* s.match(/^(\d+)/): the leading digits, <<>> when there is no match
MatchLeadingDigits(s) == SubSeq(s, 1, DigitRun(s, 1))

\* s.match(/(\d+)/): the first run of digits, <<>> when there is no match
MatchFirstDigits(s) ==
  LET starts == {i \in DOMAIN s : s[i] \in DigitSet}
  IN  IF starts = {} THEN <<>>
      ELSE LET p == CHOOSE i \in starts : \A j \in starts : i <= j
           IN  SubSeq(s, p, p + DigitRun(s, p) - 1)

\* \b of a regular expression in front of the 1-based position p of s
WordBoundary(s, p) ==
  LET before == p - 1 >= 1 /\ p - 1 <= Len(s) /\ s[p - 1] \in WordChars
      after  == p >= 1 /\ p <= Len(s) /\ s[p] \in WordChars
  IN  before # after

\* the lower-case word code stands at position p of s, whatever the case of s
MatchesAt(s, p, code) ==
  /\ p >= 1
  /\ p + Len(code) - 1 <= Len(s)
  /\ \A j \in 1..Len(code) : toLowerCaseChar(s[p + j - 1]) = code[j]

\* /\bcode\b/.test(s)
TestWholeWord(s, code) ==
  \E p \in DOMAIN s :
     /\ MatchesAt(s, p, code)
     /\ WordBoundary(s, p)
     /\ WordBoundary(s, p + Len(code))

-----------------------------------------------------------------------------
(* Header detection                                                        *)

strongHeaderKeywords ==
  << <<"l", "p", ".">>,
     <<"l", "p">>,
     <<"n", "r", " ", "n", "a", " ", "m", "a", "p", "i", "e">>,
     <<"n", "a", "z", "w", "a", " ", "g", "a", "t", "u", "n", "k", "u">>,
     <<"o", "b", "w", "o'", "d">>,
     <<"o", "b", "w", "o", "d">>,
     <<"z", "a", "b", "i", "e", "g", "i">>,
     <<"p", "i", "e", "l", "e_", "g", "n", "a", "c", "y", "j", "n", "e">>,
     <<"w", "a", "r", "t", "o", "s'", "c'">>,
     <<"n", "e", "t", "t", "o">>,
     <<"b", "r", "u", "t", "t", "o">>,
     <<"k", "o", "d">> >>

normalizeTextStripped == WhiteSpace \cup {".", ",", ";", ":"}

normalizeText(text) ==
  SelectSeq(toLowerCase(text), LAMBDA c : c \notin normalizeTextStripped)

\* Strategy A: the number of keywords found in the joined, lower-cased row
keywordHits(row) ==
  LET rowText == toLowerCase(join(row, <<" ">>))
  IN  Cardinality({k \in DOMAIN strongHeaderKeywords :
                      includes(rowText, strongHeaderKeywords[k])})

\* a keyword scan that takes two keywords for a header whatever else is there
StrategyATwoHits(row) == keywordHits(row) >= 2

StrategyA(row) ==
  LET rowText == toLowerCase(join(row, <<" ">>))
      hits == keywordHits(row)
  IN  \/ hits >= 3
      \/ /\ hits >= 2
         /\ includes(rowText, <<"l", "p">>) \/ includes(rowText, <<"n", "r">>)

\* a score that takes containment only between two strings longer than 3
matchScoreAtBothLong(row, referenceHeaders, i) ==
  LET h == normalizeText(CellAt(referenceHeaders, i))
      r == normalizeText(CellAt(row, i))
  IN  IF h = r THEN 10
      ELSE IF (Len(h) > 3 /\ Len(r) > 3) /\ (includes(h, r) \/ includes(r, h))
           THEN 8
           ELSE 0

\* the score of position i (0-based) in tenths: 10 exact, 8 containment, 0 none
matchScoreAt(row, referenceHeaders, i) ==
  LET h == normalizeText(CellAt(referenceHeaders, i))
      r == normalizeText(CellAt(row, i))
  IN  IF h = r THEN 10
      ELSE IF (Len(h) > 3 \/ Len(r) > 3) /\ (includes(h, r) \/ includes(r, h))
           THEN 8
           ELSE 0

\* position i is compared unless both sides are empty
isCompared(row, referenceHeaders, i) ==
  \/ \E c \in Range(CellAt(referenceHeaders, i)) : c \notin normalizeTextStripped
  \/ \E c \in Range(CellAt(row, i)) : c \notin normalizeTextStripped

RECURSIVE SumOver(_, _)
SumOver(S, f) ==
  IF S = {} THEN 0
  ELSE LET x == CHOOSE y \in S : TRUE IN f[x] + SumOver(S \ {x}, f)

Min(a, b) == IF a <= b THEN a ELSE b

StrategyB(row, referenceHeaders) ==
  /\ Len(referenceHeaders) > 0
  /\ LET colsToCheck == Min(Len(referenceHeaders), Len(row))
         compared == {i \in 0..(colsToCheck - 1) :
                         isCompared(row, referenceHeaders, i)}
         matchScore == SumOver(compared,
                          [i \in compared |-> matchScoreAt(row, referenceHeaders, i)])
     IN  \* matchScore / comparisons > 0.5, with matchScore in tenths
         /\ Cardinality(compared) > 0
         /\ matchScore > 5 * Cardinality(compared)

isHeaderRow(row, referenceHeaders) ==
  StrategyA(row) \/ StrategyB(row, referenceHeaders)

-----------------------------------------------------------------------------
(* Table merging                                                           *)

Abs(n) == IF n < 0 THEN -n ELSE n

\* a test without the fallback on the header counts
compatibleByHeaders(currentTable, nextTable) ==
  LET sameHeaders == currentTable.headers = nextTable.headers
      headersLookSimilar == isHeaderRow(nextTable.headers, currentTable.headers)
  IN  sameHeaders \/ headersLookSimilar

compatible(currentTable, nextTable) ==
  LET colDiff == Abs(Len(currentTable.headers) - Len(nextTable.headers))
      sameHeaders == currentTable.headers = nextTable.headers
      headersLookSimilar == isHeaderRow(nextTable.headers, currentTable.headers)
  IN  sameHeaders \/ headersLookSimilar
        \/ (colDiff <= 1 /\ Len(nextTable.headers) > 3)

\* a merge that hands the accumulator over to the merged fragment
mergeRowsUnderNext(currentTable, nextTable) ==
  [nextTable EXCEPT !.rows = currentTable.rows \o @]

\* "Merge rows": currentTable.rows = [...currentTable.rows, ...nextTable.rows]
mergeRows(currentTable, nextTable) ==
  [currentTable EXCEPT !.rows = @ \o nextTable.rows]

\* a loop that tests a fragment against the fragment before it
RECURSIVE mergeFromPrevious(_, _, _, _)
mergeFromPrevious(tables, i, merged, currentTable) ==
  IF i > Len(tables) THEN Append(merged, currentTable)
  ELSE IF compatible(tables[i - 1], tables[i])
       THEN mergeFromPrevious(tables, i + 1, merged, mergeRows(currentTable, tables[i]))
       ELSE mergeFromPrevious(tables, i + 1, Append(merged, currentTable), tables[i])

\* the loop of mergeCompatibleTables from fragment i on, with the tables
\* finished so far and the accumulator currentTable
RECURSIVE mergeFrom(_, _, _, _)
mergeFrom(tables, i, merged, currentTable) ==
  IF i > Len(tables) THEN Append(merged, currentTable)
  ELSE IF compatible(currentTable, tables[i])
       THEN mergeFrom(tables, i + 1, merged, mergeRows(currentTable, tables[i]))
       ELSE mergeFrom(tables, i + 1, Append(merged, currentTable), tables[i])

mergeCompatibleTables(tables) ==
  IF Len(tables) = 0 THEN <<>> ELSE mergeFrom(tables, 2, <<>>, tables[1])

-----------------------------------------------------------------------------
(* Column classification                                                   *)

\* columnScores is the Map of the source: a sequence of entries in insertion
\* order, each [idx, circ, treat]

hasScore(columnScores, idx) ==
  \E k \in DOMAIN columnScores : columnScores[k].idx = idx

getScore(columnScores, idx) ==
  IF hasScore(columnScores, idx) THEN columnScores
  ELSE Append(columnScores, [idx |-> idx, circ |-> 0, treat |-> 0])

\* score.circ += c; score.treat += t for score = getScore(idx)
addScore(columnScores, idx, c, t) ==
  LET scores == getScore(columnScores, idx)
      k == CHOOSE j \in DOMAIN scores : scores[j].idx = idx
  IN  [scores EXCEPT ![k].circ = @ + c, ![k].treat = @ + t]

circHeaderKeywords ==
  { <<"o", "b", "w">>, <<"c", "m">>, <<"w", "y", "m", "i", "a", "r">>,
    <<"s", "r", "e", "d", "n", "i", "c", "a">>,
    <<"s'", "r", "e", "d", "n", "i", "c", "a">> }

treatHeaderKeywords ==
  { <<"z", "a", "b", "i", "e", "g">>, <<"c", "z", "y", "n", "n", "o", "s'">>,
    <<"c", "z", "y", "n", "n", "o", "s">>, <<"o", "p", "i", "s">>,
    <<"k", "o", "d">> }

headerCircScore(header) ==
  LET h == trim(toLowerCase(header))
  IN  IF \E kw \in circHeaderKeywords : includes(h, kw) THEN 50 ELSE 0

headerTreatScore(header) ==
  LET h == trim(toLowerCase(header))
  IN  IF \E kw \in treatHeaderKeywords : includes(h, kw) THEN 50 ELSE 0

\* Strategy 1: table.headers.forEach from the 0-based index idx on
RECURSIVE scoreHeaders(_, _, _)
scoreHeaders(columnScores, headers, idx) ==
  IF idx >= Len(headers) THEN columnScores
  ELSE scoreHeaders(addScore(columnScores, idx,
                             headerCircScore(headers[idx + 1]),
                             headerTreatScore(headers[idx + 1])),
                    headers, idx + 1)

csKeywords ==
  { <<"c", "s">>, <<"c", "i", "e_", "c">>, <<"c", "i", "e", "c">>,
    <<"c", "r">>, <<"c", "p">> }

uoSymbols == { <<"u", "o">>, <<"u">>, <<"u", "o", ".">>, <<"u", ".">> }

cellTreatScore(cell) ==
  LET valLower == toLowerCase(trim(cell))
  IN  IF \E kw \in csKeywords : includes(valLower, kw) THEN 5
      ELSE IF \/ includes(valLower, <<"w", "2", "t">>)
              \/ includes(valLower, <<"w", "4", "t">>)
              \/ TestWholeWord(valLower, <<"w", "e">>) THEN 5
      ELSE IF includes(valLower, <<"k", "u">>) THEN 5
      ELSE IF valLower \in uoSymbols THEN 2
      ELSE 0

cellCircScore(cell) ==
  LET numberMatch == MatchLeadingDigits(trim(cell))
  IN  IF numberMatch # <<>> /\ parseInt(numberMatch) >= 0
                           /\ parseInt(numberMatch) <= 900
      THEN 1 ELSE 0

\* Strategy 2: row.forEach from the 0-based index idx on; an empty cell is skipped
RECURSIVE scoreRow(_, _, _)
scoreRow(columnScores, row, idx) ==
  IF idx >= Len(row) THEN columnScores
  ELSE IF row[idx + 1] = <<>> THEN scoreRow(columnScores, row, idx + 1)
  ELSE scoreRow(addScore(columnScores, idx, cellCircScore(row[idx + 1]),
                         cellTreatScore(row[idx + 1])),
                row, idx + 1)

RECURSIVE scoreRows(_, _, _)
scoreRows(columnScores, rows, r) ==
  IF r > Len(rows) THEN columnScores
  ELSE scoreRows(scoreRow(columnScores, rows[r], 0), rows, r + 1)

scoreColumns(table) ==
  scoreRows(scoreHeaders(<<>>, table.headers, 0), table.rows, 1)

\* the selection loop over columnScores.entries() from entry k on
RECURSIVE selectFrom(_, _, _)
selectFrom(columnScores, k, best) ==
  IF k > Len(columnScores) THEN best
  ELSE LET score == columnScores[k]
           afterCirc == IF score.circ > best.maxCircScore
                        THEN [best EXCEPT !.maxCircScore = score.circ,
                                          !.bestCircIdx = score.idx]
                        ELSE best
           afterTreat == IF score.treat > afterCirc.maxTreatScore
                         THEN [afterCirc EXCEPT !.maxTreatScore = score.treat,
                                                !.bestTreatIdx = score.idx]
                         ELSE afterCirc
       IN  selectFrom(columnScores, k + 1, afterTreat)

selectColumns(columnScores) ==
  selectFrom(columnScores, 1,
             [bestCircIdx |-> -1, maxCircScore |-> 0,
              bestTreatIdx |-> -1, maxTreatScore |-> 0])

\* a resolution that prefers the circumference when the scores are equal
resolveConflictForCirc(best) ==
  IF best.bestCircIdx # -1 /\ best.bestCircIdx = best.bestTreatIdx
  THEN IF best.maxTreatScore > best.maxCircScore
       THEN [best EXCEPT !.bestCircIdx = -1]
       ELSE [best EXCEPT !.bestTreatIdx = -1]
  ELSE best

\* "Resolve conflict if same column selected for both"
resolveConflict(best) ==
  IF best.bestCircIdx # -1 /\ best.bestCircIdx = best.bestTreatIdx
  THEN IF best.maxTreatScore >= best.maxCircScore
       THEN [best EXCEPT !.bestCircIdx = -1]
       ELSE [best EXCEPT !.bestTreatIdx = -1]
  ELSE best

classifyColumns(table) == resolveConflict(selectColumns(scoreColumns(table)))

-----------------------------------------------------------------------------
(* Pricing                                                                 *)

\* prices in grosz: 730.00 PLN is 73000
DEFAULT_PRICING_SCHEDULE ==
  << [min |-> 0,   max |-> 100, price |-> 73000],
     [min |-> 101, max |-> 150, price |-> 79200],
     [min |-> 151, max |-> 200, price |-> 84800],
     [min |-> 201, max |-> 250, price |-> 91200],
     [min |-> 251, max |-> 300, price |-> 116400],
     [min |-> 301, max |-> 350, price |-> 129600],
     [min |-> 351, max |-> 400, price |-> 146200],
     [min |-> 401, max |-> 450, price |-> 162800],
     [min |-> 451, max |-> 500, price |-> 165000],
     [min |-> 501, max |-> 550, price |-> 176600],
     [min |-> 551, max |-> 600, price |-> 188000],
     [min |-> 601, max |-> 650, price |-> 199600],
     [min |-> 651, max |-> 700, price |-> 211200] >>

\* VAT_RATE = 0.08, in percent
VAT_RATE == 8

\* the defaults of the flat prices, in grosz
DefaultWePrice == 80000
DefaultW2tPrice == 80000
DefaultW4tPrice == 120000
DefaultKuPrice == 50000

\* options.name ?? fallback
OptionOr(opts, name, fallback) ==
  IF name \in DOMAIN opts THEN opts[name] ELSE fallback

\* a boolean option is falsy when it is undefined
Flag(opts, name) == name \in DOMAIN opts /\ opts[name]

\* a tier search that leaves the upper end of every tier out
findTierIndexOpenEnd(cm) ==
  LET hits == {i \in DOMAIN DEFAULT_PRICING_SCHEDULE :
                  /\ cm >= DEFAULT_PRICING_SCHEDULE[i].min
                  /\ cm < DEFAULT_PRICING_SCHEDULE[i].max}
  IN  IF hits = {} THEN -1
      ELSE (CHOOSE i \in hits : \A j \in hits : i <= j) - 1

\* a search that puts a circumference above every tier into the last tier
findTierIndexClamped(cm) ==
  LET hits == {i \in DOMAIN DEFAULT_PRICING_SCHEDULE :
                  cm >= DEFAULT_PRICING_SCHEDULE[i].min}
  IN  IF hits = {} THEN -1
      ELSE (CHOOSE i \in hits : \A j \in hits : i >= j) - 1

\* DEFAULT_PRICING_SCHEDULE.findIndex(t => cm >= t.min && cm <= t.max), 0-based
findTierIndex(cm) ==
  LET hits == {i \in DOMAIN DEFAULT_PRICING_SCHEDULE :
                  /\ cm >= DEFAULT_PRICING_SCHEDULE[i].min
                  /\ cm <= DEFAULT_PRICING_SCHEDULE[i].max}
  IN  IF hits = {} THEN -1
      ELSE (CHOOSE i \in hits : \A j \in hits : i <= j) - 1

\* Math.ceil(basePrice * csMultiplier): basePrice in grosz, csMultiplier in
\* hundredths; the result is a whole number of PLN, given in grosz
ceilTimes(basePrice, csMultiplier) ==
  (-((-(basePrice * csMultiplier)) \div 10000)) * 100

csFamilyTreatmentCount(tLower) ==
  (IF \E kw \in { <<"c", "s">>, <<"c", "i", "e_", "c">>, <<"c", "i", "e", "c">> } :
         includes(tLower, kw) THEN 1 ELSE 0)
  + (IF includes(tLower, <<"c", "r">>) THEN 1 ELSE 0)
  + (IF includes(tLower, <<"c", "p">>) THEN 1 ELSE 0)

\* the per-unit price of tier tierIndex (0-based) under the options
csBasePrice(tierIndex, opts) ==
  LET schedulePrice == DEFAULT_PRICING_SCHEDULE[tierIndex + 1].price
      basePrice ==
        IF /\ "customCsPrices" \in DOMAIN opts
           /\ tierIndex < Len(opts.customCsPrices)
        THEN opts.customCsPrices[tierIndex + 1]
        ELSE schedulePrice
  IN  IF "csMultiplier" \in DOMAIN opts
      THEN ceilTimes(basePrice, opts.csMultiplier)
      ELSE basePrice

\* a compartment price that is rounded up after the families are counted in
csPriceCeilLast(circCell, tLower, opts) ==
  LET count == csFamilyTreatmentCount(tLower)
      match == MatchFirstDigits(circCell)
      tierIndex == findTierIndex(parseInt(match))
      basePrice ==
        IF /\ "customCsPrices" \in DOMAIN opts
           /\ tierIndex < Len(opts.customCsPrices)
        THEN opts.customCsPrices[tierIndex + 1]
        ELSE DEFAULT_PRICING_SCHEDULE[tierIndex + 1].price
  IN  IF count > 0 /\ match # <<>> /\ tierIndex # -1
      THEN IF "csMultiplier" \in DOMAIN opts
           THEN ceilTimes(basePrice * count, opts.csMultiplier)
           ELSE basePrice * count
      ELSE 0

\* 1. Calculate CS / CR / CP Price
csPrice(circCell, tLower, opts) ==
  LET count == csFamilyTreatmentCount(tLower)
      match == MatchFirstDigits(circCell)
      tierIndex == findTierIndex(parseInt(match))
  IN  IF count > 0 /\ match # <<>> /\ tierIndex # -1
      THEN csBasePrice(tierIndex, opts) * count
      ELSE 0

\* \bcode\b at position q of text
codeAt(text, q, code) ==
  /\ MatchesAt(text, q, code)
  /\ WordBoundary(text, q)
  /\ WordBoundary(text, q + Len(code))

\* \s*x\s* at position p of text: the position behind it, 0 when it is not there
afterX(text, p) ==
  LET px == p + SpaceRun(text, p)
  IN  IF px <= Len(text) /\ toLowerCaseChar(text[px]) = "x"
      THEN px + 1 + SpaceRun(text, px + 1)
      ELSE 0

\* (\d+)\s*x\s* at position p of text: the position behind it, 0 when it is
\* not there
leadingGroup(text, p) ==
  IF DigitRun(text, p) > 0 THEN afterX(text, p + DigitRun(text, p)) ELSE 0

\* \s*x\s*(\d+) at position e of text: the position of its digits, 0 when it
\* is not there
trailingGroup(text, e) ==
  LET sd == afterX(text, e)
  IN  IF sd > 0 /\ DigitRun(text, sd) > 0 THEN sd ELSE 0

\* the match that starts at p with the code at q (behind the leading group
\* when q > p) and the digits of the trailing group at sd (0: no such group)
matchOf(text, p, q, sd, code) ==
  [found |-> TRUE,
   next  |-> IF sd > 0 THEN sd + DigitRun(text, sd) ELSE q + Len(code),
   m1    |-> IF q > p THEN SubSeq(text, p, p + DigitRun(text, p) - 1) ELSE <<>>,
   m3    |-> IF sd > 0 THEN SubSeq(text, sd, sd + DigitRun(text, sd) - 1)
             ELSE <<>>]

noMatch == [found |-> FALSE, next |-> 0, m1 |-> <<>>, m3 |-> <<>>]

\* \b(code)\b(?:\s*x\s*(\d+))? with the code at q, for an attempt that starts at p
matchCode(text, p, q, code) ==
  IF codeAt(text, q, code)
  THEN matchOf(text, p, q, trailingGroup(text, q + Len(code)), code)
  ELSE noMatch

\* One attempt of /(?:(\d+)\s*x\s*)?\b(code)\b(?:\s*x\s*(\d+))?/i at position p.
\* Every quantifier is greedy and none can give back to any use, so the attempt
\* is deterministic: the leading group is taken when it leads to the code,
\* else the code must stand at p; the trailing group is taken when it is there.
\* The result is [found, next, m1, m3]: next is the position after the match.
matchAt(text, p, code) ==
  LET pq == leadingGroup(text, p)
  IN  IF pq > 0 /\ codeAt(text, pq, code)
      THEN matchCode(text, p, pq, code)
      ELSE matchCode(text, p, p, code)

\* a multiplier that prefers the number after the code
matchMultiplierTrailingFirst(m) ==
  IF m.m3 # <<>> THEN parseInt(m.m3)
  ELSE IF m.m1 # <<>> THEN parseInt(m.m1)
  ELSE 1

\* parseInt(match[1] || match[3] || '1', 10)
matchMultiplier(m) ==
  IF m.m1 # <<>> THEN parseInt(m.m1)
  ELSE IF m.m3 # <<>> THEN parseInt(m.m3)
  ELSE 1

\* text.matchAll(pattern) from position p on, the multipliers summed;
\* countMatch takes the attempt m at position p
RECURSIVE countFrom(_, _, _)
RECURSIVE countMatch(_, _, _, _)
countMatch(text, p, code, m) ==
  IF m.found
  THEN matchMultiplier(m) + countFrom(text, m.next, code)
  ELSE countFrom(text, p + 1, code)

countFrom(text, p, code) ==
  IF p > Len(text) THEN 0 ELSE countMatch(text, p, code, matchAt(text, p, code))

getTreatmentCount(text, code) == countFrom(text, 1, code)

\* a crown price that bills every crown code it finds
crownPriceAllCodes(treatCell, opts) ==
  OptionOr(opts, "w4tPrice", DefaultW4tPrice)
      * getTreatmentCount(treatCell, <<"w", "4", "t">>)
    + OptionOr(opts, "w2tPrice", DefaultW2tPrice)
      * getTreatmentCount(treatCell, <<"w", "2", "t">>)
    + OptionOr(opts, "wePrice", DefaultWePrice)
      * getTreatmentCount(treatCell, <<"w", "e">>)

\* "Maintain priority: if a higher-tier treatment is found, ignore lower tiers."
crownPriceByPriority(w4tCount, w2tCount, weCount, opts) ==
  IF w4tCount > 0 THEN OptionOr(opts, "w4tPrice", DefaultW4tPrice) * w4tCount
  ELSE IF w2tCount > 0 THEN OptionOr(opts, "w2tPrice", DefaultW2tPrice) * w2tCount
  ELSE IF weCount > 0 THEN OptionOr(opts, "wePrice", DefaultWePrice) * weCount
  ELSE 0

\* 2. Calculate WE / W2t / W4t Price
crownPrice(treatCell, opts) ==
  crownPriceByPriority(getTreatmentCount(treatCell, <<"w", "4", "t">>),
                       getTreatmentCount(treatCell, <<"w", "2", "t">>),
                       getTreatmentCount(treatCell, <<"w", "e">>),
                       opts)

\* if (kuCount > 0) rowPriceNetto += kuPrice * kuCount
kuPriceTimes(kuCount, opts) ==
  IF kuCount > 0 THEN OptionOr(opts, "kuPrice", DefaultKuPrice) * kuCount ELSE 0

\* 3. Calculate KU Price (Independently)
kuPriceOf(treatCell, opts) ==
  kuPriceTimes(getTreatmentCount(treatCell, <<"k", "u">>), opts)

\* a row price that bills KU only when nothing else was billed
rowPriceNettoKuLast(row, bestCircIdx, bestTreatIdx, opts) ==
  LET others == csPrice(CellAt(row, bestCircIdx),
                        toLowerCase(CellAt(row, bestTreatIdx)), opts)
                  + crownPrice(CellAt(row, bestTreatIdx), opts)
  IN  IF others > 0 THEN others ELSE kuPriceOf(CellAt(row, bestTreatIdx), opts)

rowPriceNetto(row, bestCircIdx, bestTreatIdx, opts) ==
  LET circCell == CellAt(row, bestCircIdx)
      treatCell == CellAt(row, bestTreatIdx)
      tLower == toLowerCase(treatCell)
  IN  csPrice(circCell, tLower, opts) + crownPrice(treatCell, opts)
        + kuPriceOf(treatCell, opts)

\* a gross price that adds the tax rate as 0.8
rowPriceBruttoWrongRate(netto) == netto * (100 + 10 * VAT_RATE)

\* rowPriceNetto * (1 + VAT_RATE), in 0.0001 PLN
rowPriceBrutto(netto) == netto * (100 + VAT_RATE)

\* val.toFixed(2) for val in 0.0001 PLN.  No amount of the model lies half way
\* between two grosz, so rounding the exact value agrees with the double.
toFixed2(val) ==
  LET grosz == (val + 50) \div 100
      frac == grosz % 100
  IN  toString(grosz \div 100) \o <<".">>
        \o <<Digits[(frac \div 10) + 1], Digits[(frac % 10) + 1]>>

formatPrice(val) ==
  LET fixed == toFixed2(val)
  IN  IF endsWith(fixed, <<".", "0", "0">>)
      THEN SubSeq(fixed, 1, Len(fixed) - 3)
      ELSE fixed

-----------------------------------------------------------------------------
(* Row filtering, header renaming and the per-table callback               *)

circHeaderLabel ==
  <<"O", "b", "w", "o'", "d", " ", "p", "n", "i", "a", "\n", "m", "i", "e", "r",
    "z", ".", "\n", "n", "a", " ", "w", "y", "s", ".", " ", "1", "3", "0", " ",
    "c", "m", "\n", "[", "c", "m", "]">>

treatHeaderLabel ==
  <<"Z", "a", "b", "i", "e", "g", "i", "\n", "p", "i", "e", "l", "e_", "g", "n",
    "a", "c", "y", "j", "n", "e">>

lpHeaderLabel == <<"L", "p", ".">>

speciesHeaderLabel ==
  <<"N", "a", "z", "w", "a", " ", "g", "a", "t", "u", "n", "k", "u", "\n", "[",
    "p", "o", "l", "s", "k", "a", "/", "l/", "a", "c", "i", "n'", "s", "k", "a",
    "]">>

nettoHeaderLabel ==
  <<"W", "a", "r", "t", "o", "s'", "c'", "\n", "z", "a", "b", "i", "e", "g",
    "o'", "w", "\n", "p", "i", "e", "l", "e_", "g", "n", "a", "c", "y", "j", "n",
    "y", "c", "h", "\n", "[", "n", "e", "t", "t", "o", "]", "\n", "[", "P", "L",
    "N", "]">>

bruttoHeaderLabel ==
  <<"W", "a", "r", "t", "o", "s'", "c'", "\n", "z", "a", "b", "i", "e", "g",
    "o'", "w", "\n", "p", "i", "e", "l", "e_", "g", "n", "a", "c", "y", "j", "n",
    "y", "c", "h", "\n", "[", "b", "r", "u", "t", "t", "o", "]", "\n", "[", "P",
    "L", "N", "]">>

\* a purge that looks only at the first row of the table
purgeLeadingHeaderRow(rows, headers) ==
  IF Len(rows) > 0 /\ isHeaderRow(rows[1], headers) THEN Tail(rows) ELSE rows

\* rowsToProcess.filter(row => !isHeaderRow(row, table.headers))
purgeHeaderRows(rows, headers) ==
  SelectSeq(rows, LAMBDA row : ~ isHeaderRow(row, headers))

\* a removal-code test that keeps the trailing period
isUoRowKeepingPeriod(row, bestTreatIdx) ==
  toLowerCase(trim(CellAt(row, bestTreatIdx))) \in { <<"u", "o">>, <<"u">> }

\* the row is a removal-code row: its treatment cell, trimmed, lower-cased and
\* without one trailing period, is "uo" or "u"
isUoRow(row, bestTreatIdx) ==
  LET lowered == toLowerCase(trim(CellAt(row, bestTreatIdx)))
      normalized == IF endsWith(lowered, <<".">>)
                    THEN SubSeq(lowered, 1, Len(lowered) - 1)
                    ELSE lowered
  IN  normalized \in { <<"u", "o">>, <<"u">> }

filterUoRows(rows, bestTreatIdx, opts) ==
  IF Flag(opts, "removeUoRows") /\ bestTreatIdx # -1
  THEN SelectSeq(rows, LAMBDA row : ~ isUoRow(row, bestTreatIdx))
  ELSE rows

\* a test that prices a table as soon as one of the two columns is resolved
isUnpricedBothMissing(best) == best.bestCircIdx = -1 /\ best.bestTreatIdx = -1

\* "If we failed to identify both columns needed for pricing"
isUnpriced(best) == best.bestCircIdx = -1 \/ best.bestTreatIdx = -1

\* newHeaders[idx] = label when idx is resolved and newHeaders[idx] is truthy
renameAt(headers, idx, label) ==
  IF idx # -1 /\ CellAt(headers, idx) # <<>>
  THEN [headers EXCEPT ![idx + 1] = label]
  ELSE headers

renameLp(headers) ==
  IF Len(headers) > 0
  THEN LET h0 == toLowerCase(headers[1])
       IN  IF \/ includes(h0, <<"l", "p">>)
              \/ h0 = <<"1">>
              \/ h0 = <<>>
              \/ h0 = <<"n", "o">>
           THEN [headers EXCEPT ![1] = lpHeaderLabel]
           ELSE headers
  ELSE headers

renameSpecies(headers, best) ==
  IF Len(headers) > 1 /\ best.bestCircIdx # 1 /\ best.bestTreatIdx # 1
  THEN LET h1 == toLowerCase(headers[2])
       IN  IF \/ includes(h1, <<"g", "a", "t", "u", "n">>)
              \/ includes(h1, <<"n", "a", "z", "w", "a">>)
              \/ h1 = <<>>
           THEN [headers EXCEPT ![2] = speciesHeaderLabel]
           ELSE headers
  ELSE headers

\* an append that leaves a list alone that ends with the gross label
appendPriceHeadersOnce(headers) ==
  IF Len(headers) > 0 /\ headers[Len(headers)] # bruttoHeaderLabel
  THEN headers \o <<nettoHeaderLabel, bruttoHeaderLabel>>
  ELSE headers

\* "Append the Price Headers"
appendPriceHeaders(headers) ==
  IF Len(headers) > 0
  THEN headers \o <<nettoHeaderLabel, bruttoHeaderLabel>>
  ELSE headers

renameHeaders(headers, best) ==
  appendPriceHeaders(
    renameSpecies(
      renameLp(
        renameAt(renameAt(headers, best.bestCircIdx, circHeaderLabel),
                 best.bestTreatIdx, treatHeaderLabel)),
      best))

\* a push that keeps a row without a price whatever the options say
pushRowKeepingZero(loop, row, netto, opts) ==
  IF netto > 0
  THEN [newRows |-> Append(loop.newRows,
                           row \o <<formatPrice(netto * 100),
                                    formatPrice(rowPriceBrutto(netto))>>),
        totalNetto |-> loop.totalNetto + netto,
        totalBrutto |-> loop.totalBrutto + rowPriceBrutto(netto)]
  ELSE [loop EXCEPT !.newRows = Append(@, row \o << <<>>, <<>> >>)]

\* "Add VAT and push": the loop's state after a row with the net price netto.
\* loop is [newRows, totalNetto in grosz, totalBrutto in 0.0001 PLN]
pushRow(loop, row, netto, opts) ==
  IF netto > 0
  THEN [newRows |-> Append(loop.newRows,
                           row \o <<formatPrice(netto * 100),
                                    formatPrice(rowPriceBrutto(netto))>>),
        totalNetto |-> loop.totalNetto + netto,
        totalBrutto |-> loop.totalBrutto + rowPriceBrutto(netto)]
  ELSE IF Flag(opts, "removeZeroPriceRows")
       THEN loop
       ELSE [loop EXCEPT !.newRows = Append(@, row \o << <<>>, <<>> >>)]

\* for (const row of rowsToProcess) from row r on
RECURSIVE priceRows(_, _, _, _, _)
priceRows(rows, r, best, opts, loop) ==
  IF r > Len(rows) THEN loop
  ELSE priceRows(rows, r + 1, best, opts,
                 pushRow(loop, rows[r],
                         rowPriceNetto(rows[r], best.bestCircIdx,
                                       best.bestTreatIdx, opts),
                         opts))

\* row.slice(1).some(cell => cell && cell.trim() !== '')
hasContentAfterLp(row) ==
  \E i \in 2..Len(row) : row[i] # <<>> /\ trim(row[i]) # <<>>

removeEmptyRows(newRows) == SelectSeq(newRows, hasContentAfterLp)

\* /^[\d.]+$/.test(firstCell.trim()) for a truthy firstCell
looksLikeNumber(row) ==
  LET firstCell == trim(CellAt(row, 0))
  IN  /\ firstCell # <<>>
      /\ \A i \in DOMAIN firstCell : firstCell[i] \in DigitSet \cup {"."}

\* a renumbering that counts only the rows it relabels
renumberRowsCountingNumerals(finalRows, opts) ==
  IF ~ Flag(opts, "preserveLp") /\ Len(finalRows) > 0
  THEN [index \in 1..Len(finalRows) |->
          IF looksLikeNumber(finalRows[index])
          THEN [finalRows[index] EXCEPT
                  ![1] = toString(Cardinality({j \in 1..index :
                                                 looksLikeNumber(finalRows[j])}))]
          ELSE finalRows[index]]
  ELSE finalRows

renumberRows(finalRows, opts) ==
  IF ~ Flag(opts, "preserveLp") /\ Len(finalRows) > 0
  THEN [index \in 1..Len(finalRows) |->
          IF looksLikeNumber(finalRows[index])
          THEN [finalRows[index] EXCEPT ![1] = toString(index)]
          ELSE finalRows[index]]
  ELSE finalRows

\* an end of the callback that renumbers the rows before the cleanup
finishTableRenumberFirst(table, opts, best, priced, done) ==
  [processedTables |->
     Append(done.processedTables,
            [table EXCEPT
               !.headers = renameHeaders(table.headers, best),
               !.rows = removeEmptyRows(renumberRows(priced.newRows, opts))]),
   totalNetto |-> priced.totalNetto,
   totalBrutto |-> priced.totalBrutto]

\* the end of the callback of tables.map for a priced table: the cleanup, the
\* renumbering and the returned table.  done is [processedTables, totalNetto,
\* totalBrutto], the tables mapped so far and the running totals
finishTable(table, opts, best, priced, done) ==
  [processedTables |->
     Append(done.processedTables,
            [table EXCEPT
               !.headers = renameHeaders(table.headers, best),
               !.rows = renumberRows(removeEmptyRows(priced.newRows), opts)]),
   totalNetto |-> priced.totalNetto,
   totalBrutto |-> priced.totalBrutto]

\* the callback from the pricing check on
priceTable(table, opts, best, rowsToProcess, done) ==
  IF isUnpriced(best)
  THEN [done EXCEPT
          !.processedTables = Append(@, [table EXCEPT !.rows = rowsToProcess])]
  ELSE finishTable(table, opts, best,
                   priceRows(rowsToProcess, 1, best, opts,
                             [newRows |-> <<>>,
                              totalNetto |-> done.totalNetto,
                              totalBrutto |-> done.totalBrutto]),
                   done)

\* the callback from the row filters on
filterTable(table, opts, best, done) ==
  priceTable(table, opts, best,
             filterUoRows(purgeHeaderRows(table.rows, table.headers),
                          best.bestTreatIdx, opts),
             done)

\* the callback of tables.map
processTable(table, opts, done) ==
  filterTable(table, opts, classifyColumns(table), done)

\* a total that is cut after two decimals instead of rounded
roundTotalTruncating(total) == total \div 100

\* parseFloat(total.toFixed(2)) for a total in 0.0001 PLN: the total in grosz
roundTotal(total) == (total + 50) \div 100

\* tables.map(...) from table k on
RECURSIVE mapTables(_, _, _, _)
mapTables(tables, k, opts, done) ==
  IF k > Len(tables) THEN done
  ELSE mapTables(tables, k + 1, opts, processTable(tables[k], opts, done))

\* the returned object for the mapped tables and the accumulated totals
returnValue(done) ==
  [processedTables |-> done.processedTables,
   totals |-> [totalNetto |-> roundTotal(100 * done.totalNetto),
               totalBrutto |-> roundTotal(done.totalBrutto)]]

processTablesWithPricing(tables0, opts) ==
  returnValue(mapTables(mergeCompatibleTables(tables0), 1, opts,
                        [processedTables |-> <<>>,
                         totalNetto |-> 0, totalBrutto |-> 0]))

-----------------------------------------------------------------------------
(* Inputs                                                                  *)

headersFull ==
    <<<<"L", "p">>, <<"G", "a", "t", "u", "n", "e", "k">>, <<"O", "b", "w",
      "o'", "d">>, <<"Z", "a", "b", "i", "e", "g", "i">>>>

headersShort ==
    <<<<"O", "b", "w", "o'", "d">>, <<"K", "o", "d">>>>

headersData ==
    <<<<"5">>, <<"S", "o", "s", "n", "a">>, <<"2", "0", "0">>, <<"C",
      "R">>>>

rowCs ==
    <<<<"1">>, <<"D", "a_", "b">>, <<"1", "2", "0">>, <<"C", "S">>>>

rowUo ==
    <<<<"2">>, <<"K", "l", "o", "n">>, <<"4", "0">>, <<"U", "o">>>>

rowW4tKu ==
    <<<<"3">>, <<"L", "i", "p", "a">>, <<"--">>, <<"2", "x", " ", "W", "4",
      "t", " ", "K", "U">>>>

rowHeader ==
    <<<<"L", "p">>, <<"G", "a", "t", "u", "n", "e", "k">>, <<"O", "b", "w",
      "o'", "d">>, <<"Z", "a", "b", "i", "e", "g", "i">>>>

rowBlank ==
    <<<<"4">>, <<>>, <<"1", "3", "0">>, <<>>>>

rowNamed ==
    <<<<"a">>, <<"B", "u", "k">>, <<"--">>, <<"u", ".">>>>

\* a ragged row: the ordinal alone
rowRagged == << <<"7">> >>

\* a header list shorter than the rows, its first label blank
headersPartial ==
    <<<<>>, <<"N", "a", "z", "w", "a">>>>

\* two rows of a table without headers: the first lacks its ordinal, the
\* second its circumference
rowNoLp ==
    <<<<>>, <<"D", "a_", "b">>, <<"1", "2", "0">>, <<"C", "S">>>>

rowNoCirc ==
    <<<<"2">>, <<"K", "l", "o", "n">>, <<>>, <<"C", "S">>>>

\* a header line repeated among the rows, with other words than the headers
rowNrHeader ==
    <<<<"N", "r">>, <<"G", "a", "t", "u", "n", "e", "k">>, <<"O", "b", "w",
      "o'", "d">>, <<"K", "o", "d">>>>

\* a row that has its ordinal and otherwise empty cells
rowOrdinalOnly == <<<<"7">>, <<>>, <<>>, <<>>>>

\* tables of one column: treatments that start with a count, a circumference
\* with its treatment under a circumference header, and a header that names
\* both the description and the unit
oneColumnTables ==
  { [title |-> "A", headers |-> <<>>, rows |-> << <<rowW4tKu[4]>> >>],
    [title |-> "A", headers |-> <<headersFull[3]>>,
     rows |-> << << <<"1", "2", "0", " ", "C", "S">> >> >>],
    [title |-> "A", headers |-> << <<"O", "p", "i", "s", " ", "c", "m">> >>,
     rows |-> << <<rowCs[2]>> >>] }

RowPool == {rowCs, rowUo, rowW4tKu, rowHeader, rowBlank, rowNamed}

HeaderPool == {headersFull, headersPartial, <<>>}

TreatPool ==
  { <<"C", "S">>,
    <<"c", "s">>,
    <<"C", "R">>,
    <<"C", "P">>,
    <<"C", "S", " ", "C", "R">>,
    <<"C", "S", " ", "C", "R", " ", "C", "P">>,
    <<"c", "i", "e_", "c", "i", "e">>,
    <<"W", "4", "t">>,
    <<"2", "x", " ", "W", "4", "t">>,
    <<"W", "4", "t", " ", "x", " ", "3">>,
    <<"W", "4", "t", " ", "W", "4", "t">>,
    <<"2", " ", "W", "4", "t">>,
    <<"2", "W", "4", "t">>,
    <<"w", "4", "t", " ", "x", " ", "2", " ", "x", " ", "w", "4", "t">>,
    <<"2", "x", " ", "W", "4", "t", " ", "x", " ", "3">>,
    <<"W", "2", "t", " ", "W", "4", "t">>,
    <<"W", "2", "t">>,
    <<"W", "E">>,
    <<"w", "e", ",", " ", "2", "x", " ", "W", "2", "t">>,
    <<"2", "x", " ", "W", "4", "t", " ", "K", "U">>,
    <<"K", "U">>,
    <<"3", " ", "X", " ", "k", "u">>,
    <<"C", "S", " ", "K", "U">>,
    <<"C", "S", " ", "W", "2", "t", " ", "K", "U">>,
    <<"U", "o">>,
    <<>>,
    <<"W", "4", "t", "x", "2">>,
    <<"K", "U", " ", "x", "2", " ", "W", "E">> }

CircPool ==
  { <<"1", "2", "0">>,
    <<"1", "0", "0">>,
    <<"1", "0", "1">>,
    <<"7", "0", "0">>,
    <<"7", "0", "1">>,
    <<"--">>,
    <<"0">>,
    <<"o", "k", ".", " ", "2", "5", "0", " ", "c", "m">> }

\* the rows of the first fragment are at most MaxRows, the fragments that
\* follow it at most MaxFragments
MaxRows == 2
MaxFragments == 1

RECURSIVE SeqsUpTo(_, _)
SeqsUpTo(S, n) ==
  IF n = 0 THEN {<<>>}
  ELSE LET shorter == SeqsUpTo(S, n - 1)
       IN  shorter \cup {Append(s, x) : s \in {t \in shorter : Len(t) = n - 1}, x \in S}

\* a header list with the treatment column before the circumference column
headersCodeFirst ==
    <<<<"K", "o", "d">>, <<"O", "b", "w", "o'", "d">>>>

\* the fragments a document extraction yields after the first one: a
\* continuation under the same headers, a table of its own, a page whose
\* first data row was read as its header and whose last row lost its cells,
\* and a table with a row that ends before the circumference and an empty row
FragmentPool ==
  { [title |-> "B", headers |-> headersFull, rows |-> <<rowW4tKu, rowW4tKu>>],
    [title |-> "C", headers |-> headersShort,
     rows |-> << <<<<"5", "5">>, <<"C", "P">>>>, <<<<"6", "0">>, <<"K", "U">>>> >>],
    [title |-> "D", headers |-> headersData, rows |-> <<rowCs, rowRagged>>],
    [title |-> "E", headers |-> headersCodeFirst,
     rows |-> << << <<"K", "U">> >>, <<>>,
                 << <<"C", "S">>, <<"1", "2", "0">> >> >>] }

\* a document of one table: any rows in any order under the full headers,
\* one row less under the other headers, the two sparse rows without headers,
\* the tables of one column, a table with the ragged row between two rows, and
\* a table with a repeated header line and one with a row of its ordinal only
SingleTables ==
  {<<[title |-> "A", headers |-> headersFull, rows |-> r]>> :
     r \in SeqsUpTo(RowPool, MaxRows)}
  \cup {<<[title |-> "A", headers |-> h, rows |-> r]>> :
          h \in HeaderPool, r \in SeqsUpTo(RowPool, MaxRows - 1)}
  \cup {<<[title |-> "A", headers |-> <<>>, rows |-> <<rowNoLp, rowNoCirc>>]>>}
  \cup {<<t>> : t \in oneColumnTables}
  \cup {<<[title |-> "A", headers |-> headersFull, rows |-> r]>> :
          r \in {<<rowCs, rowRagged, rowW4tKu>>, <<rowCs, rowNrHeader>>,
                 <<rowCs, rowOrdinalOnly>>}}

\* a document of several fragments: a first table of priced rows, then fragments
FragmentedTables ==
  {<<[title |-> "A", headers |-> h, rows |-> r]>> \o f :
     h \in {headersFull, <<>>},
     r \in {<<>>, <<rowCs>>, <<rowW4tKu, rowW4tKu>>},
     f \in SeqsUpTo(FragmentPool, MaxFragments) \ {<<>>}}

\* a table under two headers, a page of it under the full headers, and a
\* page under the two headers again
tableOverThreePages ==
  << [title |-> "A", headers |-> headersShort,
      rows |-> << <<<<"1", "2", "0">>, <<"C", "S">>>> >>],
     [title |-> "B", headers |-> headersFull, rows |-> <<rowW4tKu>>],
     [title |-> "C", headers |-> headersShort,
      rows |-> << <<<<"6", "0">>, <<"K", "U">>>> >>] >>

\* a document is one table, several fragments, or no table at all
RawTablesPool ==
  SingleTables \cup FragmentedTables \cup {tableOverThreePages, <<>>}

\* one table of one row under the full headers, for every pair of cells
CellTablesPool ==
  { << [title |-> "A", headers |-> headersFull,
        rows |-> << << <<"1">>, <<"L", "i", "p", "a">>, c, t >> >>] >> :
      c \in CircPool, t \in TreatPool }

FlagPool ==
  {[removeUoRows |-> u, removeZeroPriceRows |-> z, preserveLp |-> l] :
     u \in BOOLEAN, z \in BOOLEAN, l \in BOOLEAN}

\* the options: every combination of the flags with the default prices, and
\* two sets of caller prices (800.55 PLN is 80055; csMultiplier 1.5 is 150, a
\* binary fraction, so that the product of the doubles is the exact one)
OptionPool ==
  FlagPool
  \cup {[removeUoRows |-> u, removeZeroPriceRows |-> FALSE, preserveLp |-> FALSE,
         wePrice |-> 70000, w2tPrice |-> 90050, w4tPrice |-> 120000,
         kuPrice |-> 80055] : u \in BOOLEAN}
  \cup {[removeUoRows |-> TRUE, removeZeroPriceRows |-> z, preserveLp |-> TRUE,
         wePrice |-> 80000, w2tPrice |-> 80000, w4tPrice |-> 120000,
         kuPrice |-> 50000, csMultiplier |-> 150,
         customCsPrices |-> <<70000, 80010>>] : z \in BOOLEAN}

-----------------------------------------------------------------------------
(* The call                                                                *)

NoTotals == [totalNetto |-> 0, totalBrutto |-> 0]

\* no object, and no reference held by the call
NoHeap == [tables |-> <<>>, strings |-> <<>>, lists |-> <<>>]

NoFrame ==
  [input |-> <<>>, tables |-> <<>>, out |-> <<>>,
   totalNetto |-> 0, totalBrutto |-> 0]

\* no App is mounted
NoApp == [status |-> "NONE"]

InitWith(pool) ==
  /\ rawTables \in pool
  /\ options \in OptionPool
  /\ pc = "call"
  /\ processedTables = <<>>
  /\ totals = NoTotals
  /\ heap = NoHeap
  /\ frame = NoFrame
  /\ app = NoApp

Init == InitWith(RawTablesPool)

InitCells == InitWith(CellTablesPool)

\* processTablesWithPricing(rawTables, options) returns
Return(result) ==
  /\ processedTables' = result.processedTables
  /\ totals' = result.totals

\* x[idx].method() throws a TypeError when the array x has no element idx
throwsAt(array, idx) == idx >= Len(array)

\* a header update that reads the first two headers without a look at the
\* length of the list
renameThrowsUnguarded(headers, best) ==
  \/ throwsAt(headers, 0)
  \/ best.bestCircIdx # 1 /\ best.bestTreatIdx # 1 /\ throwsAt(headers, 1)

\* newHeaders[0].toLowerCase() and newHeaders[1].toLowerCase() of the header
\* update, each behind its test of newHeaders.length
renameThrows(headers, best) ==
  \/ Len(headers) > 0 /\ throwsAt(headers, 0)
  \/ /\ Len(headers) > 1 /\ best.bestCircIdx # 1 /\ best.bestTreatIdx # 1
     /\ throwsAt(headers, 1)

\* tables[0].rows in mergeCompatibleTables, behind the test of tables.length
mergeThrows(tables) == Len(tables) # 0 /\ throwsAt(tables, 0)

\* the callback of tables.map throws for a logical table: only a priced table
\* reaches the header update.  Every other element read of the callback is
\* defaulted (x[i] || "") or tested (cell && cell.trim()) before it is used
tableThrows(table, best) ==
  ~ isUnpriced(best) /\ renameThrows(table.headers, best)

tablesThrow(tables) ==
  \E k \in DOMAIN tables : tableThrows(tables[k], classifyColumns(tables[k]))

callThrows(tables0) ==
  mergeThrows(tables0) \/ tablesThrow(mergeCompatibleTables(tables0))

\* the call returns its result, or throws and returns nothing
Process ==
  /\ pc = "call"
  /\ IF callThrows(rawTables)
     THEN pc' = "raised" /\ UNCHANGED <<processedTables, totals>>
     ELSE Return(processTablesWithPricing(rawTables, options)) /\ pc' = "returned"
  /\ UNCHANGED <<rawTables, options, heap, frame, app>>

Next == Process

Spec == Init /\ [][Next]_vars

SpecCells == InitCells /\ [][Next]_vars

-----------------------------------------------------------------------------
(* The call on a heap of objects                                           *)

\* heap.tables[a] is the table object at address a: its title and the
\* addresses of its headers array and of its rows array; heap.strings[a] is an
\* array of strings (a header list or a row); heap.lists[a] is an array of
\* rows, each the address of an array of strings.  An allocation yields the
\* new heap and the address of the new object.

allocStrings(h, value) ==
  [heap |-> [h EXCEPT !.strings = Append(@, value)], ref |-> Len(h.strings) + 1]

allocList(h, value) ==
  [heap |-> [h EXCEPT !.lists = Append(@, value)], ref |-> Len(h.lists) + 1]

allocTable(h, title, headers, rows) ==
  [heap |-> [h EXCEPT !.tables = Append(@, [title |-> title, headers |-> headers,
                                            rows |-> rows])],
   ref |-> Len(h.tables) + 1]

\* new arrays for the rows from the i-th on; refs are the addresses so far
RECURSIVE allocRows(_, _, _, _)
allocRows(h, rows, i, refs) ==
  IF i > Len(rows) THEN [heap |-> h, refs |-> refs]
  ELSE allocRows([h EXCEPT !.strings = Append(@, rows[i])], rows, i + 1,
                 Append(refs, Len(h.strings) + 1))

\* the table the caller built: its headers, its rows, its row list, the table
storeTable(h, table) ==
  LET headers == allocStrings(h, table.headers)
      rows == allocRows(headers.heap, table.rows, 1, <<>>)
      list == allocList(rows.heap, rows.refs)
  IN  allocTable(list.heap, table.title, headers.ref, list.ref)

\* the caller's array rawTables from table i on
RECURSIVE storeTables(_, _, _, _)
storeTables(h, tables, i, refs) ==
  IF i > Len(tables) THEN [heap |-> h, refs |-> refs]
  ELSE storeTables(storeTable(h, tables[i]).heap, tables, i + 1,
                   Append(refs, Len(h.tables) + 1))

\* the table at address t as a value
tableAt(h, t) ==
  [title |-> h.tables[t].title,
   headers |-> h.strings[h.tables[t].headers],
   rows |-> [i \in 1..Len(h.lists[h.tables[t].rows]) |->
               h.strings[h.lists[h.tables[t].rows][i]]]]

\* a merge that takes the caller's table as its accumulator
shareTable(h, t) == [heap |-> h, ref |-> t]

\* { ...tables[i], rows: [...tables[i].rows] }: a new table object with the
\* title and the headers array of table t and a new array of the same rows
spreadTable(h, t) ==
  allocTable(allocList(h, h.lists[h.tables[t].rows]).heap,
             h.tables[t].title, h.tables[t].headers, Len(h.lists) + 1)

\* currentTable.rows = [...currentTable.rows, ...nextTable.rows]
assignRows(h, currentTable, nextTable) ==
  [allocList(h, h.lists[h.tables[currentTable].rows]
                  \o h.lists[h.tables[nextTable].rows]).heap
     EXCEPT !.tables[currentTable].rows = Len(h.lists) + 1]

\* the state of the merge loop with a new accumulator
startTable(made, merged) ==
  [heap |-> made.heap, merged |-> merged, currentTable |-> made.ref]

\* the loop of mergeCompatibleTables on the heap from fragment i on
RECURSIVE mergeHeapFrom(_, _, _)
mergeHeapFrom(input, i, m) ==
  IF i > Len(input) THEN [m EXCEPT !.merged = Append(@, m.currentTable)]
  ELSE IF compatible(tableAt(m.heap, m.currentTable), tableAt(m.heap, input[i]))
       THEN mergeHeapFrom(input, i + 1,
                          [m EXCEPT !.heap = assignRows(@, m.currentTable, input[i])])
       ELSE mergeHeapFrom(input, i + 1,
                          startTable(spreadTable(m.heap, input[i]),
                                     Append(m.merged, m.currentTable)))

mergeHeap(h, input) ==
  IF Len(input) = 0 THEN [heap |-> h, merged |-> <<>>, currentTable |-> 0]
  ELSE mergeHeapFrom(input, 2, startTable(spreadTable(h, input[1]), <<>>))

\* the rows of table t that pass the header purge and the removal-code filter
rowsToProcessAt(h, t, best, opts) ==
  SelectSeq(h.lists[h.tables[t].rows],
            LAMBDA a : /\ ~ isHeaderRow(h.strings[a], h.strings[h.tables[t].headers])
                       /\ ~ (/\ Flag(opts, "removeUoRows")
                             /\ best.bestTreatIdx # -1
                             /\ isUoRow(h.strings[a], best.bestTreatIdx)))

\* the callback's state after it returned the table at address made.ref
tableDone(made, netto, brutto, done) ==
  [heap |-> made.heap, out |-> Append(done.out, made.ref),
   totalNetto |-> netto, totalBrutto |-> brutto]

\* { ...table, rows: rowsToProcess }
unpricedTable(h, t, rowsToProcess) ==
  allocTable(allocList(h, rowsToProcess).heap,
             h.tables[t].title, h.tables[t].headers, Len(h.lists) + 1)

\* a renaming that works on the headers array of the table itself
shareHeaders(h, t) == [heap |-> h, ref |-> h.tables[t].headers]

\* const newHeaders = [...(table.headers || [])]
cloneHeaders(h, t) == allocStrings(h, h.strings[h.tables[t].headers])

\* the writes to newHeaders: the renamed labels and the two price headers
writeHeaders(newHeaders, best) ==
  [newHeaders.heap EXCEPT !.strings[newHeaders.ref] = renameHeaders(@, best)]

\* the table object the callback returns for the rows it built
tableOf(h, title, newHeaders, rows) ==
  allocTable(allocList(rows.heap, rows.refs).heap, title, newHeaders,
             Len(rows.heap.lists) + 1)

\* { ...table, headers: newHeaders, rows: finalRows }: every row of finalRows
\* is an array the pricing loop or the renumbering made
pricedTable(h, t, newHeaders, finalRows) ==
  tableOf(h, h.tables[t].title, newHeaders, allocRows(h, finalRows, 1, <<>>))

\* the callback for a priced table, after the pricing loop
finishHeapTable(t, opts, best, newHeaders, priced, done) ==
  tableDone(pricedTable(writeHeaders(newHeaders, best), t, newHeaders.ref,
                        renumberRows(removeEmptyRows(priced.newRows), opts)),
            priced.totalNetto, priced.totalBrutto, done)

\* the callback from the pricing check on
priceHeapTable(h, t, opts, best, rowsToProcess, done) ==
  IF isUnpriced(best)
  THEN tableDone(unpricedTable(h, t, rowsToProcess),
                 done.totalNetto, done.totalBrutto, done)
  ELSE finishHeapTable(t, opts, best, cloneHeaders(h, t),
                       priceRows([i \in 1..Len(rowsToProcess) |->
                                    h.strings[rowsToProcess[i]]],
                                 1, best, opts,
                                 [newRows |-> <<>>,
                                  totalNetto |-> done.totalNetto,
                                  totalBrutto |-> done.totalBrutto]),
                       done)

\* the callback of tables.map for the table at address t
filterHeapTable(h, t, opts, best, done) ==
  priceHeapTable(h, t, opts, best, rowsToProcessAt(h, t, best, opts), done)

processHeapTable(h, t, opts, done) ==
  filterHeapTable(h, t, opts, classifyColumns(tableAt(h, t)), done)

\* the documents of the calls on the heap
HeapTablesPool == FragmentedTables \cup {<<>>}

Stored(made) ==
  /\ heap = made.heap
  /\ frame = [NoFrame EXCEPT !.input = made.refs]

InitHeap ==
  /\ rawTables \in HeapTablesPool
  /\ options \in OptionPool
  /\ pc = "call"
  /\ processedTables = <<>>
  /\ totals = NoTotals
  /\ app = NoApp
  /\ Stored(storeTables(NoHeap, rawTables, 1, <<>>))

Merged(m) ==
  /\ heap' = m.heap
  /\ frame' = [frame EXCEPT !.tables = m.merged]

\* const tables = mergeCompatibleTables(rawTables)
Merge ==
  /\ pc = "call"
  /\ Merged(mergeHeap(heap, frame.input))
  /\ pc' = "map"
  /\ UNCHANGED <<rawTables, options, processedTables, totals, app>>

Mapped(done) ==
  /\ heap' = done.heap
  /\ frame' = [frame EXCEPT !.out = done.out,
                            !.totalNetto = done.totalNetto,
                            !.totalBrutto = done.totalBrutto]

\* one call of the callback of tables.map
MapTable ==
  /\ pc = "map"
  /\ Len(frame.out) < Len(frame.tables)
  /\ Mapped(processHeapTable(heap, frame.tables[Len(frame.out) + 1], options, frame))
  /\ UNCHANGED <<rawTables, options, pc, processedTables, totals, app>>

\* return { processedTables, totals }
ReturnTables ==
  /\ pc = "map"
  /\ Len(frame.out) = Len(frame.tables)
  /\ processedTables' = [k \in 1..Len(frame.out) |-> tableAt(heap, frame.out[k])]
  /\ totals' = [totalNetto |-> roundTotal(100 * frame.totalNetto),
                totalBrutto |-> roundTotal(frame.totalBrutto)]
  /\ pc' = "returned"
  /\ UNCHANGED <<rawTables, options, heap, frame, app>>

NextHeap == Merge \/ MapTable \/ ReturnTables

SpecHeap == InitHeap /\ [][NextHeap]_vars

-----------------------------------------------------------------------------
(* The App                                                                 *)

ProcessingStatus == {"IDLE", "UPLOADING", "PROCESSING", "SUCCESS", "ERROR"}

\* the settings the App starts with
initialOptions ==
  [removeUoRows |-> TRUE, removeZeroPriceRows |-> TRUE, preserveLp |-> TRUE,
   wePrice |-> 80000, w2tPrice |-> 80000, w4tPrice |-> 120000, kuPrice |-> 50000,
   csMultiplier |-> 100,
   customCsPrices |-> [i \in DOMAIN DEFAULT_PRICING_SCHEDULE |->
                         DEFAULT_PRICING_SCHEDULE[i].price]]

\* the deletions between two recomputations are at most MaxEdits and the
\* settings that differ from the initial ones at most MaxChanged
MaxEdits == 1
MaxChanged == 1

\* the state of the App at its first render.  pending counts the extractions
\* that were started and have not settled; edits counts the deletions made in
\* the displayed result and discarded the deletions that the recomputation
\* of the displayed result threw away, until the result is edited again
initialApp ==
  [status |-> "IDLE", rawResult |-> <<>>, result |-> <<>>, totals |-> <<>>,
   fileName |-> "", errorMsg |-> <<>>, options |-> initialOptions,
   pending |-> 0, edits |-> 0, discarded |-> 0]

\* the values the user gives a toggle or a number input
OptionValues ==
  [removeUoRows |-> BOOLEAN, removeZeroPriceRows |-> BOOLEAN, preserveLp |-> BOOLEAN,
   wePrice |-> {80000, 70000}, w2tPrice |-> {80000, 90050},
   w4tPrice |-> {120000, 100000}, kuPrice |-> {50000, 80055},
   csMultiplier |-> {100, 150}]

\* the tier (0-based) and the amounts the user types into a tier price input
TierInputs == {1}

DisplayValues == {79200, 90000}

\* the number of settings that differ from the initial ones
changedSettings(opts) ==
  Cardinality({name \in DOMAIN initialOptions : opts[name] # initialOptions[name]})

\* the documents an extraction resolves with: a table under the full headers,
\* a table under two headers that continues on a second page, and a table
\* of two rows without headers
AppTablesPool ==
  { << [title |-> "A", headers |-> headersFull, rows |-> <<rowCs, rowUo>>] >>,
    << [title |-> "A", headers |-> headersShort,
        rows |-> << <<<<"1", "2", "0">>, <<"C", "S">>>> >>],
       [title |-> "B", headers |-> headersShort,
        rows |-> << <<<<"6", "0">>, <<"K", "U">>>> >>] >>,
    << [title |-> "C", headers |-> <<>>,
        rows |-> <<rowCs, <<<<"2">>, <<"L", "i", "p", "a">>, <<"6", "0">>,
                            <<"K", "U">>>> >>] >> }

AppDocPool == {[tables |-> t, metadata |-> "meta"] : t \in AppTablesPool}

FileNames == {"a.docx"}

\* valStr.replace(/\s/g, '')
withoutWhiteSpace(valStr) == SelectSeq(valStr, LAMBDA c : c \notin WhiteSpace)

\* s.replace(',', '.'): the first comma only
commaToPoint(s) ==
  LET commas == {i \in DOMAIN s : s[i] = ","}
  IN  IF commas = {} THEN s
      ELSE [s EXCEPT ![CHOOSE i \in commas : \A j \in commas : i <= j] = "."]

\* parseFloat(t) in grosz, <<>> for NaN: the digits at the start of t and the
\* digits after a point that follows them.  The cells of the model hold
\* neither a sign nor an exponent nor more than two decimals.
parseFloat(t) ==
  LET whole == DigitRun(t, 1)
      decimals == IF whole < Len(t) /\ t[whole + 1] = "."
                  THEN DigitRun(t, whole + 2) ELSE 0
      tenths == IF decimals >= 1 THEN DigitValue[t[whole + 2]] ELSE 0
      hundredths == IF decimals >= 2 THEN DigitValue[t[whole + 3]] ELSE 0
  IN  IF whole + decimals = 0 THEN <<>>
      ELSE <<100 * parseInt(SubSeq(t, 1, whole)) + 10 * tenths + hundredths>>

\* what one cell adds to a total
cellAmount(row, index) ==
  LET valStr == CellAt(row, index)
      val == parseFloat(commaToPoint(withoutWhiteSpace(valStr)))
  IN  IF valStr = <<>> \/ val = <<>> THEN 0 ELSE val[1]

\* table.headers.findIndex(h => h.toLowerCase().includes(label)), 0-based
findIndexIncluding(headers, label) ==
  LET hits == {i \in DOMAIN headers : includes(toLowerCase(headers[i]), label)}
  IN  IF hits = {} THEN -1 ELSE (CHOOSE i \in hits : \A j \in hits : i <= j) - 1

RECURSIVE columnSum(_, _, _)
columnSum(rows, r, index) ==
  IF r > Len(rows) THEN 0
  ELSE cellAmount(rows[r], index) + columnSum(rows, r + 1, index)

labelSum(table, label) ==
  LET index == findIndexIncluding(table.headers, label)
  IN  IF index = -1 THEN 0 ELSE columnSum(table.rows, 1, index)

RECURSIVE labelTotal(_, _, _)
labelTotal(tables, t, label) ==
  IF t > Len(tables) THEN 0
  ELSE labelSum(tables[t], label) + labelTotal(tables, t + 1, label)

recalculateTotals(tables) ==
  [totalNetto |-> labelTotal(tables, 1, <<"[", "n", "e", "t", "t", "o", "]">>),
   totalBrutto |-> labelTotal(tables, 1, <<"[", "b", "r", "u", "t", "t", "o", "]">>)]

\* array.splice(index, 1) on a copy, for a 0-based index
splice(array, index) ==
  IF index >= 0 /\ index < Len(array)
  THEN SubSeq(array, 1, index) \o SubSeq(array, index + 2, Len(array))
  ELSE array

\* what the effect sets for the outcome of processTablesWithPricing
recomputed(a, outcome) ==
  [a EXCEPT !.result = <<[tables |-> outcome.processedTables,
                          metadata |-> a.rawResult[1].metadata]>>,
            !.totals = <<outcome.totals>>,
            !.status = "SUCCESS",
            !.discarded = a.edits,
            !.edits = 0]

\* an effect that computes a result only when none is displayed
effectKeepingResult(a) ==
  IF a.rawResult # <<>> /\ a.result = <<>>
  THEN recomputed(a, processTablesWithPricing(a.rawResult[1].tables, a.options))
  ELSE a

\* the effect on rawResult and the nine settings, run by the render in which
\* one of them has changed
effect(a) ==
  IF a.rawResult # <<>>
  THEN recomputed(a, processTablesWithPricing(a.rawResult[1].tables, a.options))
  ELSE a

\* the table with one row deleted
withoutRow(table, rowIndex) == [table EXCEPT !.rows = splice(@, rowIndex)]

\* the table with one column deleted
withoutColumn(table, colIndex) ==
  [table EXCEPT !.headers = splice(@, colIndex),
                !.rows = [r \in DOMAIN @ |-> splice(@[r], colIndex)]]

\* setResult(newResult); recalculateTotals(newTables)
edited(a, newTables) ==
  [a EXCEPT !.result = <<[a.result[1] EXCEPT !.tables = newTables]>>,
            !.totals = <<recalculateTotals(newTables)>>,
            !.edits = @ + 1, !.discarded = 0]

\* a drop zone that stays on the page while a document is processed
handleFileSelectedWhilePending(name) ==
  /\ app.status \in {"IDLE", "PROCESSING"}
  /\ app.pending < 2
  /\ app' = effect([app EXCEPT !.status = "PROCESSING", !.errorMsg = <<>>,
                               !.fileName = name, !.totals = <<>>,
                               !.rawResult = <<>>, !.result = <<>>,
                               !.pending = @ + 1, !.edits = 0, !.discarded = 0])

\* the drop zone is on the page in the status IDLE only
handleFileSelected(name) ==
  /\ app.status = "IDLE"
  /\ app' = effect([app EXCEPT !.status = "PROCESSING", !.errorMsg = <<>>,
                               !.fileName = name, !.totals = <<>>,
                               !.rawResult = <<>>, !.result = <<>>,
                               !.pending = @ + 1, !.edits = 0, !.discarded = 0])

\* extractTablesFromDocx resolves
ExtractionResolved(doc) ==
  /\ app.pending > 0
  /\ app' = effect([app EXCEPT !.rawResult = <<doc>>, !.pending = @ - 1])

\* extractTablesFromDocx rejects
ExtractionRejected ==
  /\ app.pending > 0
  /\ app' = [app EXCEPT !.errorMsg = <<"Nie udalo sie przetworzyc dokumentu.">>,
                        !.status = "ERROR", !.pending = @ - 1]

\* the settings, the table and the reset button of the result page
ResultShown == app.status = "SUCCESS" /\ app.result # <<>>

\* a toggle or a number input is given a new value
SetOption(name, value) ==
  /\ ResultShown
  /\ app.options[name] # value
  /\ changedSettings([app.options EXCEPT ![name] = value]) <= MaxChanged
  /\ app' = effect([app EXCEPT !.options[name] = value])

\* newPrices[index] = parseFloat((displayValue / multiplier).toFixed(2)), in
\* grosz, the multiplier in hundredths
newCustomCsPrices(opts, index, displayValue) ==
  LET multiplier == IF opts.csMultiplier > 0 THEN opts.csMultiplier ELSE 100
  IN  [opts.customCsPrices EXCEPT ![index + 1] =
         (200 * displayValue + multiplier) \div (2 * multiplier)]

\* the array of the tier prices is always a new one, so the effect runs
handleCustomCsPriceChange(index, displayValue) ==
  /\ ResultShown
  /\ changedSettings([app.options EXCEPT !.customCsPrices =
                        newCustomCsPrices(app.options, index, displayValue)])
       <= MaxChanged
  /\ app' = effect([app EXCEPT !.options.customCsPrices =
                      newCustomCsPrices(app.options, index, displayValue)])

\* if (!result) return
handleDeleteRow(tableIndex, rowIndex) ==
  /\ app.result # <<>>
  /\ app.edits < MaxEdits
  /\ app' = edited(app, [app.result[1].tables EXCEPT ![tableIndex + 1] =
                           withoutRow(@, rowIndex)])

\* a column has a delete button when the table has headers
handleDeleteColumn(tableIndex, colIndex) ==
  /\ app.result # <<>>
  /\ app.edits < MaxEdits
  /\ app' = edited(app, [app.result[1].tables EXCEPT ![tableIndex + 1] =
                           withoutColumn(@, colIndex)])

\* a reset that puts the settings back as well
handleResetRestoringOptions ==
  /\ ResultShown \/ app.status = "ERROR"
  /\ app' = effect([app EXCEPT !.status = "IDLE", !.result = <<>>,
                               !.rawResult = <<>>, !.totals = <<>>,
                               !.fileName = "", !.errorMsg = <<>>,
                               !.options = initialOptions,
                               !.edits = 0, !.discarded = 0])

\* the reset button is on the result page and on the error page
handleReset ==
  /\ ResultShown \/ app.status = "ERROR"
  /\ app' = effect([app EXCEPT !.status = "IDLE", !.result = <<>>,
                               !.rawResult = <<>>, !.totals = <<>>,
                               !.fileName = "", !.errorMsg = <<>>,
                               !.edits = 0, !.discarded = 0])

InitApp ==
  /\ rawTables = <<>>
  /\ options = initialOptions
  /\ pc = "app"
  /\ processedTables = <<>>
  /\ totals = NoTotals
  /\ heap = NoHeap
  /\ frame = NoFrame
  /\ app = initialApp

NotApp == <<rawTables, options, pc, processedTables, totals, heap, frame>>

SelectFile == (\E name \in FileNames : handleFileSelected(name)) /\ UNCHANGED NotApp

Resolve == (\E doc \in AppDocPool : ExtractionResolved(doc)) /\ UNCHANGED NotApp

Reject == ExtractionRejected /\ UNCHANGED NotApp

ChangeOption ==
  /\ \E name \in DOMAIN OptionValues :
       \E value \in OptionValues[name] : SetOption(name, value)
  /\ UNCHANGED NotApp

ChangeCustomCsPrice ==
  /\ \E index \in TierInputs, displayValue \in DisplayValues :
       handleCustomCsPriceChange(index, displayValue)
  /\ UNCHANGED NotApp

\* the table preview has a button for every row of every table
DeleteRow ==
  /\ ResultShown
  /\ \E tableIndex \in 0..(Len(app.result[1].tables) - 1) :
       \E rowIndex \in 0..(Len(app.result[1].tables[tableIndex + 1].rows) - 1) :
         handleDeleteRow(tableIndex, rowIndex)
  /\ UNCHANGED NotApp

\* and a button for every header of every table
DeleteColumn ==
  /\ ResultShown
  /\ \E tableIndex \in 0..(Len(app.result[1].tables) - 1) :
       \E colIndex \in 0..(Len(app.result[1].tables[tableIndex + 1].headers) - 1) :
         handleDeleteColumn(tableIndex, colIndex)
  /\ UNCHANGED NotApp

Reset == handleReset /\ UNCHANGED NotApp

NextApp ==
  \/ SelectFile
  \/ Resolve
  \/ Reject
  \/ ChangeOption
  \/ ChangeCustomCsPrice
  \/ DeleteRow
  \/ DeleteColumn
  \/ Reset

SpecApp == InitApp /\ [][NextApp]_vars

-----------------------------------------------------------------------------
(* Properties                                                              *)

Returned == pc = "returned"

\* the logical tables of the call and the columns chosen for logical table k
LogicalTables == mergeCompatibleTables(rawTables)

ColumnsOf(k) == classifyColumns(LogicalTables[k])

\* the two price cells of a row of a priced table
NetCell(row) == row[Len(row) - 1]

GrossCell(row) == row[Len(row)]

\* an amount as the report prints it: digits, then nothing or "." and two
\* digits that are not "00"
IsAmount(cell) ==
  LET d == DigitRun(cell, 1)
  IN  /\ d > 0
      /\ \/ Len(cell) = d
         \/ /\ Len(cell) = d + 3
            /\ cell[d + 1] = "."
            /\ cell[d + 2] \in DigitSet
            /\ cell[d + 3] \in DigitSet
            /\ ~ (cell[d + 2] = "0" /\ cell[d + 3] = "0")

\* the amount a price cell shows, in grosz; an empty cell shows nothing
AmountOf(cell) ==
  LET d == DigitRun(cell, 1)
  IN  IF cell = <<>> THEN 0
      ELSE 100 * parseInt(SubSeq(cell, 1, d))
             + (IF Len(cell) > d THEN parseInt(SubSeq(cell, d + 2, d + 3)) ELSE 0)

\* the priced tables among the output tables, by number
PricedTables ==
  LET logical == LogicalTables
  IN  {k \in DOMAIN processedTables :
         LET best == classifyColumns(logical[k])
         IN  best.bestCircIdx # -1 /\ best.bestTreatIdx # -1}

\* the rows of the priced output tables that carry a price, as <<table, row>>
PricedRows ==
  UNION {{<<k, i>> : i \in {j \in DOMAIN processedTables[k].rows :
                              NetCell(processedTables[k].rows[j]) # <<>>}} :
           k \in PricedTables}

NetAmount(row) == AmountOf(NetCell(row))

GrossAmount(row) == AmountOf(GrossCell(row))

\* the sum of the net amounts of the output rows named by rowSet
RECURSIVE SumNet(_)
SumNet(rowSet) ==
  IF rowSet = {} THEN 0
  ELSE LET c == CHOOSE x \in rowSet : TRUE
       IN  NetAmount(processedTables[c[1]].rows[c[2]]) + SumNet(rowSet \ {c})

\* the sum of the gross amounts of the output rows named by rowSet
RECURSIVE SumGross(_)
SumGross(rowSet) ==
  IF rowSet = {} THEN 0
  ELSE LET c == CHOOSE x \in rowSet : TRUE
       IN  GrossAmount(processedTables[c[1]].rows[c[2]]) + SumGross(rowSet \ {c})

\* net * 1.08 rounded to the grosz, for net in grosz
GrossOf(net) == (net * 108 + 50) \div 100

\* C1 as stated: totalNetto is the sum of the net price cells of the output
\* rows and totalBrutto the sum of their gross price cells, each within 0.01
C1_TotalsEqualCellSums ==
  Returned =>
    LET priced == PricedRows
    IN  /\ Abs(totals.totalNetto - SumNet(priced)) <= 1
        /\ Abs(totals.totalBrutto - SumGross(priced)) <= 1

\* C1 amended: totalNetto is the sum of the net price cells of the output rows;
\* totalBrutto is that sum times 1.08, rounded once to the grosz, so it is
\* within 0.005 * (priced rows + 1) of the sum of the separately rounded gross
\* cells; a row that is not in the output adds to neither
C1_TotalsAreRoundedSums ==
  Returned =>
    LET priced == PricedRows
        sumNet == SumNet(priced)
    IN  /\ totals.totalNetto = sumNet
        /\ totals.totalBrutto = GrossOf(sumNet)
        /\ 2 * Abs(totals.totalBrutto - SumGross(priced))
             <= Cardinality(priced) + 1

\* four priced rows whose gross cells, each rounded down, sum to 0.02 less
\* than totalBrutto
C1_Witness ==
  /\ Returned
  /\ LET priced == PricedRows
     IN  /\ Cardinality(priced) >= 4
         /\ totals.totalBrutto - SumGross(priced) = 2

\* the input of the end-to-end example: one table, one row, default prices
IsExampleCall ==
  /\ rawTables = <<[title |-> "A", headers |-> headersFull, rows |-> <<rowCs>>]>>
  /\ DOMAIN options = {"removeUoRows", "removeZeroPriceRows", "preserveLp"}

\* C6: a row with a net price shows the net and net * 1.08, each with two
\* decimals and a trailing ".00" removed, and the totals are the sums of
\* exactly these amounts; the example row gives "792", "855.36", 792.00, 855.36
C6_PriceCellsAndTotals ==
  Returned =>
    LET priced == PricedRows
        sumNet == SumNet(priced)
    IN  /\ \A c \in priced :
             LET row == processedTables[c[1]].rows[c[2]]
             IN  /\ IsAmount(NetCell(row))
                 /\ IsAmount(GrossCell(row))
                 /\ NetAmount(row) > 0
                 /\ GrossAmount(row) = GrossOf(NetAmount(row))
        /\ totals.totalNetto = sumNet
        /\ totals.totalBrutto = GrossOf(sumNet)
        /\ IsExampleCall =>
             /\ Len(processedTables) = 1
             /\ Len(processedTables[1].rows) = 1
             /\ NetCell(processedTables[1].rows[1]) = <<"7", "9", "2">>
             /\ GrossCell(processedTables[1].rows[1])
                  = <<"8", "5", "5", ".", "3", "6">>
             /\ totals = [totalNetto |-> 79200, totalBrutto |-> 85536]

\* the example has been processed and its one row carries a price
C6_Witness ==
  /\ Returned
  /\ IsExampleCall
  /\ PricedRows = {<<1, 1>>}

-----------------------------------------------------------------------------
(* Properties of the pricing of one row                                    *)

\* the call has one table of one row under the headers Lp, Gatunek, Obwod,
\* Zabiegi: the third cell is the circumference, the fourth the treatment
IsOneRowCall ==
  /\ Len(rawTables) = 1
  /\ rawTables[1].headers = headersFull
  /\ Len(rawTables[1].rows) = 1
  /\ Len(rawTables[1].rows[1]) = 4

InputCirc == rawTables[1].rows[1][3]

InputTreat == rawTables[1].rows[1][4]

\* the net amount the output shows for the one row: 0 when the row is gone or
\* its net cell is empty
OutputNet ==
  IF Len(processedTables[1].rows) = 0 THEN 0
  ELSE NetAmount(processedTables[1].rows[1])

\* every circumference 0..700 lies in exactly one tier and the tiers ascend
TierCoverage ==
  /\ \A cm \in 0..700 :
       Cardinality({i \in DOMAIN DEFAULT_PRICING_SCHEDULE :
                      /\ DEFAULT_PRICING_SCHEDULE[i].min <= cm
                      /\ cm <= DEFAULT_PRICING_SCHEDULE[i].max}) = 1
  /\ \A i \in 1..(Len(DEFAULT_PRICING_SCHEDULE) - 1) :
       /\ DEFAULT_PRICING_SCHEDULE[i].min <= DEFAULT_PRICING_SCHEDULE[i].max
       /\ DEFAULT_PRICING_SCHEDULE[i].max < DEFAULT_PRICING_SCHEDULE[i + 1].min

\* the schedule price of the tier that holds cm
TierPriceOf(cm) ==
  LET T == CHOOSE i \in DOMAIN DEFAULT_PRICING_SCHEDULE :
             /\ DEFAULT_PRICING_SCHEDULE[i].min <= cm
             /\ cm <= DEFAULT_PRICING_SCHEDULE[i].max
  IN  DEFAULT_PRICING_SCHEDULE[T].price

\* the treatment cells that name one compartment family and nothing else
OneFamilyCells ==
  { <<"C", "S">>, <<"c", "s">>, <<"C", "R">>, <<"C", "P">>,
    <<"c", "i", "e_", "c", "i", "e">> }

\* the circumference a cell states: its first run of digits
StatedCircumference(cell) == parseInt(MatchFirstDigits(cell))

\* C2: the schedule puts every circumference 0..700 in exactly one tier, and a
\* row that names one compartment family, with a circumference in tier T and
\* no custom price or multiplier, has exactly T's price as its net price
C2_TierPrice ==
  /\ TierCoverage
  /\ (/\ Returned
      /\ IsOneRowCall
      /\ InputTreat \in OneFamilyCells
      /\ MatchFirstDigits(InputCirc) # <<>>
      /\ StatedCircumference(InputCirc) \in 0..700
      /\ "customCsPrices" \notin DOMAIN options
      /\ "csMultiplier" \notin DOMAIN options)
     => /\ Len(processedTables[1].rows) = 1
        /\ IsAmount(NetCell(processedTables[1].rows[1]))
        /\ OutputNet = TierPriceOf(StatedCircumference(InputCirc))

\* a row at the upper end of the first tier has been priced
C2_Witness ==
  /\ Returned
  /\ IsOneRowCall
  /\ InputTreat = <<"C", "R">>
  /\ InputCirc = <<"1", "0", "0">>
  /\ "csMultiplier" \notin DOMAIN options
  /\ OutputNet = 73000

\* C3: the net price of a row is the sum of the compartment, the crown and
\* the maintenance contribution of its treatment cell, the maintenance one
\* added whatever else was billed; "2x W4t KU" at 1200 and 500 gives 2900
C3_NetIsSumOfContributions ==
  (Returned /\ IsOneRowCall) =>
    /\ OutputNet = csPrice(InputCirc, toLowerCase(InputTreat), options)
                     + crownPrice(InputTreat, options)
                     + kuPriceOf(InputTreat, options)
    /\ (/\ InputTreat = <<"2", "x", " ", "W", "4", "t", " ", "K", "U">>
        /\ OptionOr(options, "w4tPrice", DefaultW4tPrice) = 120000
        /\ OptionOr(options, "kuPrice", DefaultKuPrice) = 50000)
       => /\ Len(processedTables[1].rows) = 1
          /\ NetCell(processedTables[1].rows[1]) = <<"2", "9", "0", "0">>

\* a row that bills a compartment, a crown code and maintenance at once
C3_Witness ==
  /\ Returned
  /\ IsOneRowCall
  /\ InputTreat = <<"C", "S", " ", "W", "2", "t", " ", "K", "U">>
  /\ InputCirc = <<"1", "2", "0">>
  /\ DOMAIN options = {"removeUoRows", "removeZeroPriceRows", "preserveLp"}
  /\ OutputNet = 79200 + 80000 + 50000

\* the one crown amount the priority rule bills for a treatment cell
PriorityCrownAmount(treatCell) ==
  LET w4tCount == getTreatmentCount(treatCell, <<"w", "4", "t">>)
      w2tCount == getTreatmentCount(treatCell, <<"w", "2", "t">>)
      weCount  == getTreatmentCount(treatCell, <<"w", "e">>)
  IN  IF w4tCount > 0 THEN OptionOr(options, "w4tPrice", DefaultW4tPrice) * w4tCount
      ELSE IF w2tCount > 0
           THEN OptionOr(options, "w2tPrice", DefaultW2tPrice) * w2tCount
           ELSE OptionOr(options, "wePrice", DefaultWePrice) * weCount

\* C4: of the crown codes only one is billed, W4t before W2t before WE; a
\* cell with both W2t and W4t bills w4tPrice * (W4t count) and nothing for W2t
C4_CrownPriority ==
  (Returned /\ IsOneRowCall) =>
    /\ OutputNet - csPrice(InputCirc, toLowerCase(InputTreat), options)
                 - kuPriceOf(InputTreat, options)
         = PriorityCrownAmount(InputTreat)
    /\ InputTreat = <<"W", "2", "t", " ", "W", "4", "t">>
         => OutputNet = OptionOr(options, "w4tPrice", DefaultW4tPrice)

\* a cell with W2t and W4t has been priced, at a W2t price that differs
C4_Witness ==
  /\ Returned
  /\ IsOneRowCall
  /\ InputTreat = <<"W", "2", "t", " ", "W", "4", "t">>
  /\ "w2tPrice" \in DOMAIN options
  /\ options.w2tPrice = 90050
  /\ OutputNet = 120000

-----------------------------------------------------------------------------
(* Properties of the multiplier-aware count                                *)

\* the four codes the engine counts
CountedCodes ==
  { <<"w", "e">>, <<"w", "2", "t">>, <<"w", "4", "t">>, <<"k", "u">> }

\* the code stands at position p of the text as a whole word, in any case
IsOccurrence(text, code, p) ==
  LET last == p + Len(code) - 1
  IN  /\ last <= Len(text)
      /\ \A j \in DOMAIN code : toLowerCaseChar(text[p + j - 1]) = code[j]
      /\ (p = 1 \/ text[p - 1] \notin WordChars)
      /\ (last = Len(text) \/ text[last + 1] \notin WordChars)

\* how many white-space characters, and how many digits, end at position p
RECURSIVE SpaceRunBack(_, _)
SpaceRunBack(text, p) ==
  IF p >= 1 /\ text[p] \in WhiteSpace THEN 1 + SpaceRunBack(text, p - 1) ELSE 0

RECURSIVE DigitRunBack(_, _)
DigitRunBack(text, p) ==
  IF p >= 1 /\ text[p] \in DigitSet THEN 1 + DigitRunBack(text, p - 1) ELSE 0

NoNumber == [from |-> 0, to |-> 0]

\* the number written in front of the occurrence at p: digits, then an "x"
\* (which may be left out when xOptional), white space allowed around the "x"
NumberBefore(text, p, xOptional) ==
  LET a == p - 1 - SpaceRunBack(text, p - 1)
      hasX == a >= 1 /\ toLowerCaseChar(text[a]) = "x"
      b == IF hasX THEN a - 1 - SpaceRunBack(text, a - 1) ELSE a
      n == DigitRunBack(text, b)
  IN  IF (hasX \/ xOptional) /\ n > 0
      THEN [from |-> b - n + 1, to |-> b]
      ELSE NoNumber

\* the number written behind the occurrence at p: an "x", then digits, white
\* space allowed around the "x"
NumberAfter(text, code, p) ==
  LET x == p + Len(code) + SpaceRun(text, p + Len(code))
      hasX == x <= Len(text) /\ toLowerCaseChar(text[x]) = "x"
      d == x + 1 + SpaceRun(text, x + 1)
      n == IF hasX THEN DigitRun(text, d) ELSE 0
  IN  IF n > 0 THEN [from |-> d, to |-> d + n - 1] ELSE NoNumber

NumberValue(text, number) == parseInt(SubSeq(text, number.from, number.to))

\* the multiplier next to the occurrence at p: the number in front of it, with
\* or without an "x", else the number behind it, else 1
AdjacentMultiplier(text, code, p) ==
  LET before == NumberBefore(text, p, TRUE)
      after == NumberAfter(text, code, p)
  IN  IF before # NoNumber THEN NumberValue(text, before)
      ELSE IF after # NoNumber THEN NumberValue(text, after)
      ELSE 1

\* the multiplier of the occurrence at p when the occurrences are taken from
\* left to right and each takes the numbers on both its sides with it: the
\* number in front needs its "x" and is gone when it is the number behind an
\* earlier occurrence
ConsumingMultiplier(text, code, p) ==
  LET before == NumberBefore(text, p, FALSE)
      after == NumberAfter(text, code, p)
      taken == \E q \in 1..(p - 1) :
                 IsOccurrence(text, code, q) /\ NumberAfter(text, code, q) = before
  IN  IF before # NoNumber /\ ~ taken THEN NumberValue(text, before)
      ELSE IF after # NoNumber THEN NumberValue(text, after)
      ELSE 1

RECURSIVE SumOfMultipliers(_, _, _, _)
SumOfMultipliers(text, code, p, consuming) ==
  IF p > Len(text) THEN 0
  ELSE (IF IsOccurrence(text, code, p)
        THEN IF consuming
             THEN ConsumingMultiplier(text, code, p)
             ELSE AdjacentMultiplier(text, code, p)
        ELSE 0) + SumOfMultipliers(text, code, p + 1, consuming)

\* every cell of every input row
InputCells ==
  UNION {UNION {{rawTables[t].rows[r][c] : c \in DOMAIN rawTables[t].rows[r]} :
                  r \in DOMAIN rawTables[t].rows} :
           t \in DOMAIN rawTables}

\* the four counts of the spec's examples
CountExamples ==
  /\ getTreatmentCount(<<"2", "x", " ", "W", "4", "t">>, <<"w", "4", "t">>) = 2
  /\ getTreatmentCount(<<"W", "4", "t", " ", "x", " ", "3">>, <<"w", "4", "t">>) = 3
  /\ getTreatmentCount(<<"W", "4", "t">>, <<"w", "4", "t">>) = 1
  /\ getTreatmentCount(<<"W", "4", "t", " ", "W", "4", "t">>, <<"w", "4", "t">>) = 2

\* C5 as stated: the count is the sum, over the whole-word occurrences of the
\* code, of the number in front of it, with or without an "x" between, or the
\* number behind it after an "x", or 1
C5_CountWithOptionalX ==
  Returned =>
    /\ CountExamples
    /\ \A text \in InputCells : \A code \in CountedCodes :
         getTreatmentCount(text, code) = SumOfMultipliers(text, code, 1, FALSE)

\* C5 amended: the number in front of the code counts only when an "x"
\* separates it from the code, and a number between two occurrences goes with
\* the earlier one; an occurrence left without a number counts 1
C5_CountWithRequiredX ==
  Returned =>
    /\ CountExamples
    /\ \A text \in InputCells : \A code \in CountedCodes :
         getTreatmentCount(text, code) = SumOfMultipliers(text, code, 1, TRUE)

\* a cell with a number and no "x" in front of the code has been billed once
C5_Witness ==
  /\ Returned
  /\ IsOneRowCall
  /\ InputTreat = <<"2", " ", "W", "4", "t">>
  /\ OutputNet = OptionOr(options, "w4tPrice", DefaultW4tPrice)

-----------------------------------------------------------------------------
(* Properties of the row filters and of the renumbering                    *)

\* an output row without the two price cells a priced table appends
WithoutPriceCells(row, isPriced) ==
  IF isPriced THEN SubSeq(row, 1, Len(row) - 2) ELSE row

\* digits and dots only, after trimming
IsNumeralShaped(cell) ==
  LET t == trim(cell)
  IN  Len(t) > 0 /\ \A i \in DOMAIN t : t[i] \in DigitSet \cup {"."}

\* trimmed, lower-cased and without one trailing period the cell is uo or u
IsRemovalCode(cell) ==
  toLowerCase(trim(cell)) \in
    { <<"u", "o">>, <<"u">>, <<"u", "o", ".">>, <<"u", ".">> }

\* C7: with removeUoRows on, no output table has a row whose treatment cell is
\* a removal code; the row is dropped and the totals hold the output rows only
C7_NoRemovalCodeRows ==
  (Returned /\ Flag(options, "removeUoRows")) =>
    /\ \A k \in DOMAIN processedTables :
         LET best == ColumnsOf(k)
         IN  best.bestTreatIdx # -1 =>
               \A i \in DOMAIN processedTables[k].rows :
                 ~ IsRemovalCode(CellAt(processedTables[k].rows[i],
                                        best.bestTreatIdx))
    /\ totals.totalNetto = SumNet(PricedRows)
    /\ rawTables = <<[title |-> "A", headers |-> headersFull,
                      rows |-> <<rowUo>>]>>
         => /\ processedTables[1].rows = <<>>
            /\ totals = [totalNetto |-> 0, totalBrutto |-> 0]

\* a table lost a removal-code row written with a trailing period
C7_Witness ==
  /\ Returned
  /\ Flag(options, "removeUoRows")
  /\ \E k \in DOMAIN processedTables :
       LET best == ColumnsOf(k)
           logical == LogicalTables[k]
       IN  /\ best.bestTreatIdx # -1
           /\ \E i \in DOMAIN logical.rows :
                CellAt(logical.rows[i], best.bestTreatIdx) = <<"u", ".">>
           /\ Len(processedTables[k].rows) < Len(logical.rows)

\* the surviving rows `cells` (without price cells, from the i-th on) are rows
\* of `rows` (from the j-th on) in their order, where label(i, first) is the
\* first cell the i-th surviving row must show for an input first cell `first`
\* and the other cells are the input's
RECURSIVE SurvivorsOf(_, _, _, _, _)
SurvivorsOf(cells, i, rows, j, label) ==
  IF i > Len(cells) THEN TRUE
  ELSE IF j > Len(rows) THEN FALSE
  ELSE IF /\ Len(cells[i]) = Len(rows[j])
          /\ \A c \in DOMAIN cells[i] :
               cells[i][c] = IF c = 1 THEN label[i][rows[j][1]] ELSE rows[j][c]
       THEN SurvivorsOf(cells, i + 1, rows, j + 1, label)
       ELSE SurvivorsOf(cells, i, rows, j + 1, label)

\* the first cells of the rows of a logical table
FirstCells(table) ==
  {table.rows[j][1] : j \in {r \in DOMAIN table.rows : Len(table.rows[r]) > 0}}

\* the output rows of table k without the price cells of a priced table
InputCellsOf(k, isPriced) ==
  [i \in DOMAIN processedTables[k].rows |->
     WithoutPriceCells(processedTables[k].rows[i], isPriced)]

\* C8 as stated: without preserveLp the surviving rows with a numeral-shaped
\* first cell carry 1..N in order in every output table, the others keep their
\* first cell; with preserveLp no first cell is changed
C8_NumeralRowsCarryOneToN ==
  Returned =>
    LET priced == PricedTables
        logical == LogicalTables
    IN  \A k \in DOMAIN processedTables :
          LET out == InputCellsOf(k, k \in priced)
              numerals == {i \in DOMAIN out : IsNumeralShaped(CellAt(out[i], 0))}
              label == [i \in DOMAIN out |->
                          [first \in FirstCells(logical[k]) |->
                             IF ~ Flag(options, "preserveLp") /\ IsNumeralShaped(first)
                             THEN toString(Cardinality({n \in numerals : n <= i}))
                             ELSE first]]
          IN  SurvivorsOf(out, 1, logical[k].rows, 1, label)

\* C8 amended: only priced tables are renumbered, and there a row with a
\* numeral-shaped first cell gets its position among all surviving rows
C8_NumeralRowsCarryPosition ==
  Returned =>
    LET priced == PricedTables
        logical == LogicalTables
    IN  \A k \in DOMAIN processedTables :
          LET out == InputCellsOf(k, k \in priced)
              label == [i \in DOMAIN out |->
                          [first \in FirstCells(logical[k]) |->
                             IF /\ ~ Flag(options, "preserveLp")
                                /\ k \in priced
                                /\ IsNumeralShaped(first)
                             THEN toString(i)
                             ELSE first]]
          IN  SurvivorsOf(out, 1, logical[k].rows, 1, label)

\* a numeral row behind a row that is not numeral-shaped got a new label
C8_Witness ==
  /\ Returned
  /\ ~ Flag(options, "preserveLp")
  /\ \E k \in PricedTables :
       LET out == processedTables[k].rows
           rows == LogicalTables[k].rows
       IN  /\ Len(out) = 2
           /\ Len(rows) = 2
           /\ ~ IsNumeralShaped(rows[1][1])
           /\ out[1][1] = rows[1][1]
           /\ IsNumeralShaped(rows[2][1])
           /\ rows[2][1] # <<"2">>
           /\ out[2][1] = <<"2">>

C10_UnpricedTableIsOnlyFiltered ==
  Returned =>
    LET logical == LogicalTables
        priced == PricedRows
    IN  /\ Len(processedTables) = Len(logical)
        /\ \A k \in DOMAIN logical :
             LET best == classifyColumns(logical[k])
                 survives(row) ==
                   /\ ~ isHeaderRow(row, logical[k].headers)
                   /\ ~ (/\ Flag(options, "removeUoRows")
                         /\ best.bestTreatIdx # -1
                         /\ IsRemovalCode(CellAt(row, best.bestTreatIdx)))
             IN  (best.bestCircIdx = -1 \/ best.bestTreatIdx = -1) =>
                   /\ processedTables[k].title = logical[k].title
                   /\ processedTables[k].headers = logical[k].headers
                   /\ processedTables[k].rows = SelectSeq(logical[k].rows, survives)
        /\ totals.totalNetto = SumNet(priced)
        /\ totals.totalBrutto = GrossOf(SumNet(priced))

\* a table with a treatment column and no circumference column came back
\* without its removal-code row and without prices
C10_Witness ==
  /\ Returned
  /\ Flag(options, "removeUoRows")
  /\ \E k \in DOMAIN processedTables :
       LET best == ColumnsOf(k)
       IN  /\ best.bestCircIdx = -1
           /\ best.bestTreatIdx # -1
           /\ Len(processedTables[k].rows) < Len(LogicalTables[k].rows)
           /\ processedTables[k].headers = LogicalTables[k].headers

-----------------------------------------------------------------------------
(* Properties of the rows without a price                                  *)

\* the rows of logical table k that reach the pricing loop: those the header
\* purge and the removal-code filter leave
PrePricingRowsOf(logical, best) ==
  LET survives(row) ==
        /\ ~ isHeaderRow(row, logical.headers)
        /\ ~ (/\ Flag(options, "removeUoRows")
              /\ best.bestTreatIdx # -1
              /\ IsRemovalCode(CellAt(row, best.bestTreatIdx)))
  IN  SelectSeq(logical.rows, survives)

PrePricingRows(k) ==
  PrePricingRowsOf(LogicalTables[k], classifyColumns(LogicalTables[k]))

\* both columns of a logical table are resolved
IsPriced(best) == best.bestCircIdx # -1 /\ best.bestTreatIdx # -1

\* the computed net price of the row is zero
ZeroPriced(row, best) ==
  rowPriceNetto(row, best.bestCircIdx, best.bestTreatIdx, options) = 0

\* the row without its first cell
AfterFirst(row) == SubSeq(row, 2, Len(row))

\* some cell after the first is not blank
HasContentAfterFirst(row) ==
  \E i \in 2..Len(row) : trim(row[i]) # <<>>

\* the output rows `out` of a priced table (from the i-th on) are the rows of
\* `rows` (from the j-th on) in their order without those that are dropped: a
\* row without a price has two empty strings appended, a row with a price two
\* non-empty price cells (the first cell may be relabelled).  A row without a
\* price is dropped under removeZeroPriceRows and, if blankDropped, also when
\* all its cells after the first are blank
RECURSIVE AnnotatedRows(_, _, _, _, _, _)
AnnotatedRows(out, i, rows, j, best, blankDropped) ==
  IF j > Len(rows) THEN i > Len(out)
  ELSE LET zero == ZeroPriced(rows[j], best)
       IN  IF zero /\ \/ Flag(options, "removeZeroPriceRows")
                      \/ blankDropped /\ ~ HasContentAfterFirst(rows[j])
           THEN AnnotatedRows(out, i, rows, j + 1, best, blankDropped)
           ELSE /\ i <= Len(out)
                /\ Len(out[i]) = Len(rows[j]) + 2
                /\ AfterFirst(WithoutPriceCells(out[i], TRUE)) = AfterFirst(rows[j])
                /\ (NetCell(out[i]) = <<>>) = zero
                /\ (GrossCell(out[i]) = <<>>) = zero
                /\ AnnotatedRows(out, i + 1, rows, j + 1, best, blankDropped)

\* every row of the table ends with a non-empty net and a non-empty gross cell
AllRowsPriced(rows) ==
  \A i \in DOMAIN rows : NetCell(rows[i]) # <<>> /\ GrossCell(rows[i]) # <<>>

\* C11 as stated: in a priced table a row whose net price is zero is dropped
\* when removeZeroPriceRows is set and is otherwise kept with two empty strings
\* appended; with removeZeroPriceRows set every row of a priced output table
\* ends with a non-empty net cell and a non-empty gross cell
C11_ZeroPriceRowKeptOrDropped ==
  Returned =>
    LET logical == LogicalTables
    IN  \A k \in DOMAIN logical :
          LET best == classifyColumns(logical[k])
          IN  IsPriced(best) =>
                /\ AnnotatedRows(processedTables[k].rows, 1,
                                 PrePricingRowsOf(logical[k], best), 1, best, FALSE)
                /\ Flag(options, "removeZeroPriceRows") =>
                     AllRowsPriced(processedTables[k].rows)

\* C11 amended: without removeZeroPriceRows a row whose net price is zero is
\* kept with two empty strings appended unless all its cells after the first
\* are blank, and then the final cleanup drops it
C11_ZeroPriceRowKeptUnlessBlank ==
  Returned =>
    LET logical == LogicalTables
    IN  \A k \in DOMAIN logical :
          LET best == classifyColumns(logical[k])
          IN  IsPriced(best) =>
                /\ AnnotatedRows(processedTables[k].rows, 1,
                                 PrePricingRowsOf(logical[k], best), 1, best, TRUE)
                /\ Flag(options, "removeZeroPriceRows") =>
                     AllRowsPriced(processedTables[k].rows)

\* a priced table lost a row without a price under removeZeroPriceRows and kept
\* a row with a price
C11_Witness ==
  /\ Returned
  /\ Flag(options, "removeZeroPriceRows")
  /\ \E k \in PricedTables :
       /\ \E i \in DOMAIN PrePricingRows(k) :
            /\ ZeroPriced(PrePricingRows(k)[i], ColumnsOf(k))
            /\ HasContentAfterFirst(PrePricingRows(k)[i])
       /\ Len(processedTables[k].rows) > 0
       /\ Len(processedTables[k].rows) < Len(PrePricingRows(k))

-----------------------------------------------------------------------------
(* Properties of the merge                                                 *)

\* the row lists of the tables one after the other
RECURSIVE ConcatRows(_)
ConcatRows(tables) ==
  IF tables = <<>> THEN <<>>
  ELSE Head(tables).rows \o ConcatRows(Tail(tables))

\* for a set of fragment numbers at which a logical table starts, the number
\* of the logical table fragment i falls into
GroupOf(starts, i) == Cardinality({s \in starts : s <= i})

\* the last fragment of the logical table that starts at fragment s
LastOf(starts, s, n) ==
  CHOOSE i \in s..n :
    /\ GroupOf(starts, i) = GroupOf(starts, s)
    /\ \A j \in s..n : GroupOf(starts, j) = GroupOf(starts, s) => j <= i

\* C12: the logical tables mergeCompatibleTables returns are concatenations of
\* consecutive fragments: all rows in their order, none lost or repeated, each
\* table under the headers and title of its first fragment; no fragment gives
\* no table and a single table is returned as it is
C12_MergeConcatenatesFragments ==
  Returned =>
    LET out == mergeCompatibleTables(rawTables)
        n == Len(rawTables)
    IN  /\ ConcatRows(out) = ConcatRows(rawTables)
        /\ n = 0 => out = <<>>
        /\ n = 1 => out = rawTables
        /\ n > 0 =>
             \E starts \in {T \in SUBSET (1..n) : 1 \in T} :
               /\ Len(out) = Cardinality(starts)
               /\ \A s \in starts :
                    LET table == out[GroupOf(starts, s)]
                    IN  /\ table.title = rawTables[s].title
                        /\ table.headers = rawTables[s].headers
                        /\ table.rows =
                             ConcatRows(SubSeq(rawTables, s, LastOf(starts, s, n)))
        /\ Len(processedTables) = Len(out)
        /\ \A k \in DOMAIN out : processedTables[k].title = out[k].title

\* a fragment under other headers was merged into the table before it
C12_Witness ==
  /\ Returned
  /\ Len(rawTables) >= 2
  /\ Len(mergeCompatibleTables(rawTables)) = 1
  /\ rawTables[1].rows # <<>>
  /\ rawTables[2].rows # <<>>
  /\ rawTables[2].headers # rawTables[1].headers
  /\ processedTables[1].title = rawTables[1].title

-----------------------------------------------------------------------------
(* Properties of the call on the heap                                      *)

\* the caller's tables as the heap holds them now
InputNow == [i \in 1..Len(frame.input) |-> tableAt(heap, frame.input[i])]

\* C13: at every step of the call the caller's tables hold the titles, header
\* lists, row lists and cells they were passed with, whatever the options, and
\* the call returns what processTablesWithPricing returns for them
C13_InputsAreNotMutated ==
  /\ InputNow = rawTables
  /\ Returned =>
       /\ processedTables = processTablesWithPricing(rawTables, options).processedTables
       /\ totals = processTablesWithPricing(rawTables, options).totals

\* a call merged a fragment into the caller's first table, renamed its headers
\* and relabelled a row, and the caller's tables are as they were
C13_Witness ==
  /\ Returned
  /\ Len(frame.input) = 2
  /\ Len(frame.out) = 1
  /\ Len(processedTables[1].rows) > Len(rawTables[1].rows)
  /\ Len(rawTables[1].rows) > 0
  /\ Len(rawTables[1].headers) > 0
  /\ processedTables[1].headers # rawTables[1].headers
  /\ \E i \in DOMAIN processedTables[1].rows :
       processedTables[1].rows[i][1] # ConcatRows(rawTables)[i][1]
  /\ InputNow = rawTables

-----------------------------------------------------------------------------
(* Properties of the call on malformed tables                              *)

\* the row with empty cells added up to n cells
Padded(row, n) == [i \in 1..n |-> IF i <= Len(row) THEN row[i] ELSE <<>>]

\* the rows, each with a cell at both classified indices
PaddedRows(rows, best) ==
  [i \in DOMAIN rows |->
     Padded(rows[i], Len(rows[i]) + best.bestCircIdx + best.bestTreatIdx + 2)]

\* the two price cells of every row
PriceCells(rows) == [i \in DOMAIN rows |-> <<NetCell(rows[i]), GrossCell(rows[i])>>]

\* a row that ends before the circumference or the treatment index
IsRagged(row, best) ==
  Len(row) <= best.bestCircIdx \/ Len(row) <= best.bestTreatIdx

\* the price cells the rows get when each is first filled up with empty cells
PaddedPriceCells(rows, best) ==
  PriceCells(removeEmptyRows(
    priceRows(PaddedRows(rows, best), 1, best, options,
              [newRows |-> <<>>, totalNetto |-> 0, totalBrutto |-> 0]).newRows))

\* C14: the call never throws, whatever the tables (no table, no headers, no
\* rows, an empty row, a row shorter than the classified columns): it returns
\* one table for every logical table, and the rows of a priced table carry the
\* prices they would carry with an empty cell wherever they have none
C14_TotalOnMalformedTables ==
  /\ pc # "raised"
  /\ Returned =>
       LET logical == LogicalTables
       IN  /\ Len(processedTables) = Len(logical)
           /\ \A k \in DOMAIN logical :
                LET best == classifyColumns(logical[k])
                IN  (/\ IsPriced(best)
                     /\ \E i \in DOMAIN logical[k].rows :
                          IsRagged(logical[k].rows[i], best))
                      => PriceCells(processedTables[k].rows)
                           = PaddedPriceCells(PrePricingRowsOf(logical[k], best), best)

\* a document with a table without headers and rows, an empty row, and a row
\* that has a treatment and ends before the circumference column was priced
C14_Witness ==
  /\ Returned
  /\ \E k \in DOMAIN rawTables :
       rawTables[k].headers = <<>> /\ rawTables[k].rows = <<>>
  /\ \E k \in PricedTables :
       /\ \E i \in DOMAIN LogicalTables[k].rows : LogicalTables[k].rows[i] = <<>>
       /\ \E i \in DOMAIN PrePricingRows(k) :
            /\ IsRagged(PrePricingRows(k)[i], ColumnsOf(k))
            /\ ~ ZeroPriced(PrePricingRows(k)[i], ColumnsOf(k))
       /\ \E i \in DOMAIN processedTables[k].rows :
            /\ Len(processedTables[k].rows[i]) = 3
            /\ NetCell(processedTables[k].rows[i]) # <<>>

-----------------------------------------------------------------------------
(* Properties of the header update                                         *)

\* C15 as stated: the header update applied to the header list of a priced
\* output table (with the columns of that table) yields the same list
C15_RenamingIsIdempotent ==
  Returned =>
    LET logical == LogicalTables
    IN  \A k \in DOMAIN logical :
          LET best == classifyColumns(logical[k])
          IN  IsPriced(best) =>
                renameHeaders(processedTables[k].headers, best)
                  = processedTables[k].headers

\* C15 amended: applied again, the header update keeps every label of the list
\* when the circumference and the treatment header of the table were non-empty
\* headers of its list, and appends the two price labels once more; an empty
\* header list stays empty
C15_RenamingKeepsLabelsAndAppends ==
  Returned =>
    LET logical == LogicalTables
    IN  \A k \in DOMAIN logical :
          LET best == classifyColumns(logical[k])
              out == processedTables[k].headers
          IN  IsPriced(best) =>
                /\ (/\ CellAt(logical[k].headers, best.bestCircIdx) # <<>>
                    /\ CellAt(logical[k].headers, best.bestTreatIdx) # <<>>)
                     => renameHeaders(out, best)
                          = out \o <<nettoHeaderLabel, bruttoHeaderLabel>>
                /\ logical[k].headers = <<>> =>
                     out = <<>> /\ renameHeaders(out, best) = <<>>

\* a priced table came back with its two columns renamed and the price labels
\* appended, and another with an empty header list
C15_Witness ==
  /\ Returned
  /\ \E k \in PricedTables :
       /\ CellAt(processedTables[k].headers, ColumnsOf(k).bestCircIdx) = circHeaderLabel
       /\ CellAt(processedTables[k].headers, ColumnsOf(k).bestTreatIdx) = treatHeaderLabel
       /\ Len(processedTables[k].headers) = Len(LogicalTables[k].headers) + 2
  /\ \E k \in PricedTables : processedTables[k].headers = <<>>

-----------------------------------------------------------------------------
(* Properties of the App                                                   *)

\* what the effect computes from the raw tables and the settings of a
outcomeOf(a) == processTablesWithPricing(a.rawResult[1].tables, a.options)

ShowsOutcome(a, outcome) ==
  /\ a.result = <<[tables |-> outcome.processedTables,
                   metadata |-> a.rawResult[1].metadata]>>
  /\ a.totals = <<outcome.totals>>

OptionChangeRecomputes ==
  (app.rawResult # <<>> /\ app'.options # app.options) =>
    /\ app'.rawResult = app.rawResult
    /\ ShowsOutcome(app', outcomeOf(app'))

\* C16: whenever a raw result is held and a processing option changes, the
\* displayed tables and the totals are replaced by what processTablesWithPricing
\* yields for the raw tables and the current options; the rows and columns
\* deleted from the previous result are not carried over.
C16_OptionChangeRecomputesFromRaw == [][OptionChangeRecomputes]_vars

\* an option was changed after a deletion, and the deletion is gone
C16_Witness ==
  /\ app.status = "SUCCESS"
  /\ app.rawResult # <<>>
  /\ app.options # initialOptions
  /\ app.discarded > 0
  /\ app.edits = 0
  /\ ShowsOutcome(app, outcomeOf(app))

-----------------------------------------------------------------------------
(* Properties of the column selection                                      *)

\* the scores of the columns of a table, whatever the order they were met in
CircScores(columnScores) == {[idx |-> e.idx, score |-> e.circ] : e \in Range(columnScores)}

TreatScores(columnScores) == {[idx |-> e.idx, score |-> e.treat] : e \in Range(columnScores)}

\* the smallest index among the columns of the highest score, -1 when no
\* score is positive
SmallestOfHighest(scores) ==
  LET positive == {e \in scores : e.score > 0}
      highest == {e \in positive : \A f \in positive : f.score <= e.score}
  IN  IF positive = {} THEN -1
      ELSE (CHOOSE e \in highest : \A f \in highest : e.idx <= f.idx).idx

SelectionIsSmallestOfHighest(table) ==
  LET columnScores == scoreColumns(table)
      best == selectColumns(columnScores)
  IN  /\ best.bestCircIdx = SmallestOfHighest(CircScores(columnScores))
      /\ best.bestTreatIdx = SmallestOfHighest(TreatScores(columnScores))

\* C17: for every logical table the selected circumference index is the
\* smallest column index whose circumference score is the highest of all
\* columns, if that score is positive, and is unresolved exactly when no column
\* has a positive circumference score; likewise the treatment index; also
\* under empty or short header lists and with empty cells.
C17_SelectionIsSmallestIndexOfHighestScore ==
  Returned =>
    \A k \in DOMAIN LogicalTables : SelectionIsSmallestOfHighest(LogicalTables[k])

-----------------------------------------------------------------------------
(* Properties of the conflict resolution                                   *)

\* the entry of a column in the scores of a table
ScoreOf(columnScores, idx) ==
  CHOOSE e \in Range(columnScores) : e.idx = idx

\* the two picks of the selection are the same column
PicksCollide(picked) ==
  picked.bestCircIdx # -1 /\ picked.bestCircIdx = picked.bestTreatIdx

ConflictIsResolved(table) ==
  LET columnScores == scoreColumns(table)
      picked == selectColumns(columnScores)
      best == classifyColumns(table)
  IN  /\ PicksCollide(picked) =>
           IF ScoreOf(columnScores, picked.bestCircIdx).treat
                >= ScoreOf(columnScores, picked.bestCircIdx).circ
           THEN best.bestTreatIdx = picked.bestTreatIdx /\ best.bestCircIdx = -1
           ELSE best.bestCircIdx = picked.bestCircIdx /\ best.bestTreatIdx = -1
      /\ ~PicksCollide(picked) =>
           /\ best.bestCircIdx = picked.bestCircIdx
           /\ best.bestTreatIdx = picked.bestTreatIdx
      /\ (best.bestCircIdx # -1 /\ best.bestTreatIdx # -1) =>
           best.bestCircIdx # best.bestTreatIdx

\* C18: when the circumference pick and the treatment pick are the same
\* column, the column stays the treatment column and the circumference is
\* unresolved if its treatment score is at least its circumference score,
\* otherwise it stays the circumference column and the treatment is
\* unresolved; the two indices of a table are never equal when both are
\* resolved, and no other column takes the role that was given up.
C18_ConflictKeepsOneRole ==
  Returned =>
    \A k \in DOMAIN LogicalTables : ConflictIsResolved(LogicalTables[k])

\* a table whose one column has equal scores, one where the treatment score
\* is the higher and one where the circumference score is the higher
CollidesWith(table, lower, upper) ==
  LET columnScores == scoreColumns(table)
      picked == selectColumns(columnScores)
  IN  /\ PicksCollide(picked)
      /\ picked.maxTreatScore - picked.maxCircScore \in lower..upper

C18_Witness ==
  /\ Returned
  /\ Len(LogicalTables) = 1
  /\ CollidesWith(LogicalTables[1], 0, 0)
  /\ ColumnsOf(1).bestCircIdx = -1
  /\ ColumnsOf(1).bestTreatIdx = 0

-----------------------------------------------------------------------------
(* Properties of the compatibility of fragments                            *)

\* the three conditions under which a fragment joins a logical table
IdenticalHeaders(first, fragment) == fragment.headers = first.headers

HeadersLikeHeaders(first, fragment) == isHeaderRow(fragment.headers, first.headers)

NearCounts(first, fragment) ==
  /\ Len(fragment.headers) - Len(first.headers) \in -1..1
  /\ Len(fragment.headers) > 3

MayJoin(first, fragment) ==
  \/ IdenticalHeaders(first, fragment)
  \/ HeadersLikeHeaders(first, fragment)
  \/ NearCounts(first, fragment)

\* the fragments that start a logical table, from fragment i on, when the
\* current logical table started at fragment s
RECURSIVE StartsFrom(_, _, _, _)
StartsFrom(tables, i, s, starts) ==
  IF i > Len(tables) THEN starts
  ELSE IF MayJoin(tables[s], tables[i])
       THEN StartsFrom(tables, i + 1, s, starts)
       ELSE StartsFrom(tables, i + 1, i, starts \cup {i})

StartsOf(tables) == IF tables = <<>> THEN {} ELSE StartsFrom(tables, 2, 1, {1})

\* the fragments that were merged into the logical table before them
MergedFragments(tables) == DOMAIN tables \ StartsOf(tables)

\* the header list an output table has when its logical table came in under
\* the header list headers
OutputHeaders(logical) ==
  LET best == classifyColumns(logical)
  IN  IF isUnpriced(best) THEN logical.headers
      ELSE renameHeaders(logical.headers, best)

\* C19: a fragment joins the current logical table if and only if its header
\* list is identical to that of the table's first fragment, or isHeaderRow
\* judges it a header row against that list, or the header counts differ by at
\* most 1 and the fragment has more than 3 headers; otherwise it starts a new
\* logical table.  The title and the headers of every output table are those
\* of the first fragment of its logical table (the headers renamed when the
\* table is priced): the title and the headers of a merged fragment are in
\* the output only where a first fragment has the same.
C19_FragmentJoinsIffCompatible ==
  Returned =>
    LET out == mergeCompatibleTables(rawTables)
        n == Len(rawTables)
        starts == StartsOf(rawTables)
    IN  /\ Len(out) = Cardinality(starts)
        /\ Len(processedTables) = Cardinality(starts)
        /\ \A s \in starts :
             LET g == GroupOf(starts, s)
             IN  /\ out[g] = [rawTables[s] EXCEPT !.rows =
                                ConcatRows(SubSeq(rawTables, s, LastOf(starts, s, n)))]
                 /\ processedTables[g].title = rawTables[s].title
                 /\ processedTables[g].headers = OutputHeaders(out[g])
        /\ \A j \in MergedFragments(rawTables) :
             \A g \in DOMAIN processedTables :
               /\ processedTables[g].title = rawTables[j].title
                    => \E s \in starts : rawTables[s].title = rawTables[j].title
               /\ processedTables[g].headers = rawTables[j].headers
                    => \E s \in starts : rawTables[s].headers = rawTables[j].headers

\* a fragment joined the table before it on the header counts alone, and its
\* title and its headers are nowhere in the output
C19_Witness ==
  /\ Returned
  /\ Len(rawTables) = 2
  /\ MergedFragments(rawTables) = {2}
  /\ NearCounts(rawTables[1], rawTables[2])
  /\ ~IdenticalHeaders(rawTables[1], rawTables[2])
  /\ ~HeadersLikeHeaders(rawTables[1], rawTables[2])
  /\ Len(processedTables) = 1
  /\ processedTables[1].title # rawTables[2].title
  /\ processedTables[1].headers # rawTables[2].headers
  /\ \A r \in DOMAIN processedTables[1].rows :
       SubSeq(processedTables[1].rows[r], 1, Len(rawTables[2].headers))
         # rawTables[2].headers

-----------------------------------------------------------------------------
(* Properties of the compartment price                                     *)

\* the compartment families a treatment cell names
FamilyKeywords ==
  [CS |-> { <<"c", "s">>, <<"c", "i", "e_", "c">>, <<"c", "i", "e", "c">> },
   CR |-> { <<"c", "r">> },
   CP |-> { <<"c", "p">> }]

FamiliesIn(treatCell) ==
  {f \in DOMAIN FamilyKeywords :
     \E kw \in FamilyKeywords[f] : includes(toLowerCase(treatCell), kw)}

\* the tiers (1-based) that hold the circumference cm
TiersOf(cm) ==
  {i \in DOMAIN DEFAULT_PRICING_SCHEDULE :
     /\ DEFAULT_PRICING_SCHEDULE[i].min <= cm
     /\ cm <= DEFAULT_PRICING_SCHEDULE[i].max}

\* the price of one unit in tier i before the multiplier: the custom price of
\* the tier where one is supplied, else the schedule price
UnitBase(i) ==
  IF "customCsPrices" \in DOMAIN options /\ i \in DOMAIN options.customCsPrices
  THEN options.customCsPrices[i]
  ELSE DEFAULT_PRICING_SCHEDULE[i].price

\* the least whole number of PLN, in grosz, that is not below an amount given
\* in 0.0001 PLN
CeilPLN(amount) ==
  100 * (CHOOSE n \in 0..((amount \div 10000) + 1) :
           /\ 10000 * n >= amount
           /\ \A m \in 0..n : 10000 * m >= amount => m = n)

UnitPrice(i) ==
  IF "csMultiplier" \in DOMAIN options
  THEN CeilPLN(UnitBase(i) * options.csMultiplier)
  ELSE UnitBase(i)

\* what the row owes for its compartment codes: the net amount less the crown
\* and the maintenance contribution
CompartmentContribution ==
  OutputNet - crownPrice(InputTreat, options) - kuPriceOf(InputTreat, options)

-----------------------------------------------------------------------------
(* Properties of a circumference outside the schedule                      *)

\* the cell states no circumference of the schedule: it has no digits, or
\* its first run of digits is a number no tier holds
OutsideSchedule(circCell) ==
  \/ MatchFirstDigits(circCell) = <<>>
  \/ TiersOf(StatedCircumference(circCell)) = {}

\* what the maintenance code of a treatment cell is billed
MaintenanceAmount(treatCell) ==
  OptionOr(options, "kuPrice", DefaultKuPrice)
    * getTreatmentCount(treatCell, <<"k", "u">>)

\* C21: when the circumference cell holds no integer, or an integer outside
\* every tier, the compartment family adds nothing to the net price of the
\* row and the call returns; the crown and the maintenance contribution of the
\* row are billed all the same.
C21_NoTierNoCompartmentPrice ==
  (/\ pc # "call"
   /\ IsOneRowCall
   /\ FamiliesIn(InputTreat) # {}
   /\ OutsideSchedule(InputCirc))
  => /\ Returned
     /\ OutputNet = PriorityCrownAmount(InputTreat) + MaintenanceAmount(InputTreat)
     /\ OutputNet > 0 => Len(processedTables[1].rows) = 1

\* a compartment code at 701 cm next to a crown code and the maintenance code
C21_Witness ==
  /\ Returned
  /\ IsOneRowCall
  /\ InputTreat = <<"C", "S", " ", "W", "2", "t", " ", "K", "U">>
  /\ InputCirc = <<"7", "0", "1">>
  /\ DOMAIN options = {"removeUoRows", "removeZeroPriceRows", "preserveLp"}
  /\ OutputNet = 80000 + 50000

-----------------------------------------------------------------------------
(* Properties of the cleanup                                               *)

\* no row of the table has only blank cells after its first cell
NoBlankRows(table) ==
  \A i \in DOMAIN table.rows : HasContentAfterFirst(table.rows[i])

\* a row whose first cell is a numeral carries its position in the table
NumeralsCarryPosition(table) ==
  \A i \in DOMAIN table.rows :
    IsNumeralShaped(CellAt(table.rows[i], 0)) => table.rows[i][1] = toString(i)

\* C22 as stated: no output table has a row in which every cell after the
\* first is empty or blank; such rows are removed after the pricing and before
\* the renumbering, so they take no ordinal number
C22_NoBlankRowInAnyTable ==
  Returned =>
    \A k \in DOMAIN processedTables :
      /\ NoBlankRows(processedTables[k])
      /\ (k \in PricedTables /\ ~ Flag(options, "preserveLp"))
           => NumeralsCarryPosition(processedTables[k])

\* C22 amended: no priced output table has such a row; a table whose
\* circumference or treatment column is unresolved is returned before the
\* cleanup and keeps its blank rows
C22_NoBlankRowInPricedTable ==
  Returned =>
    LET priced == PricedTables
    IN  \A k \in DOMAIN processedTables :
          /\ k \in priced => NoBlankRows(processedTables[k])
          /\ (k \in priced /\ ~ Flag(options, "preserveLp"))
               => NumeralsCarryPosition(processedTables[k])
          /\ k \notin priced =>
               processedTables[k].rows = PrePricingRows(k)

\* a blank row between two rows of a priced table is gone and the row behind
\* it carries the number 2
C22_Witness ==
  /\ Returned
  /\ ~ Flag(options, "preserveLp")
  /\ ~ Flag(options, "removeZeroPriceRows")
  /\ Len(rawTables) = 1
  /\ rawTables[1].rows = <<rowCs, rowRagged, rowW4tKu>>
  /\ Len(processedTables[1].rows) = 2
  /\ processedTables[1].rows[2][1] = <<"2">>
  /\ AfterFirst(WithoutPriceCells(processedTables[1].rows[2], TRUE)) = AfterFirst(rowW4tKu)

-----------------------------------------------------------------------------
(* Properties of the renamed headers                                       *)

\* the output header list has the canonical labels at the two columns and the
\* two price labels behind the headers that came in
RenamedAndExtended(out, headers, best) ==
  /\ Len(out) = Len(headers) + 2
  /\ CellAt(out, best.bestCircIdx) = circHeaderLabel
  /\ CellAt(out, best.bestTreatIdx) = treatHeaderLabel
  /\ out[Len(out) - 1] = nettoHeaderLabel
  /\ out[Len(out)] = bruttoHeaderLabel

\* C23: in the header list of a priced output table the entry at the
\* circumference index is the canonical circumference label, the entry at the
\* treatment index the canonical treatment label, and the net and the gross
\* label are appended, so that the list has exactly two entries more than the
\* header list that came in, which is left as it was.
C23_PricedHeadersRenamedAndExtended ==
  Returned =>
    LET logical == LogicalTables
    IN  \A k \in DOMAIN logical :
          LET best == classifyColumns(logical[k])
          IN  IsPriced(best) =>
                RenamedAndExtended(processedTables[k].headers,
                                   logical[k].headers, best)

-----------------------------------------------------------------------------
(* Properties of the keyword scan                                          *)

\* the text the scan reads
ScannedText(row) == toLowerCase(join(row, <<" ">>))

\* the keywords that occur in the row
OccurringKeywords(row) ==
  {kw \in Range(strongHeaderKeywords) : includes(ScannedText(row), kw)}

\* the keywords that name an ordinal or an index
OrdinalKeywords ==
  { <<"l", "p", ".">>, <<"l", "p">>,
    <<"n", "r", " ", "n", "a", " ", "m", "a", "p", "i", "e">> }

\* the lists the scan is applied to: the rows of the tables and, in the
\* merge, the header lists of the fragments
ScannedLists ==
  UNION {Range(rawTables[k].rows) \cup {rawTables[k].headers} :
           k \in DOMAIN rawTables}

\* C24 as stated: the keyword scan judges a row a header if and only if at
\* least 3 distinct keywords occur in the lower-cased concatenation of its
\* cells, or at least 2 occur and one of the occurring keywords is an ordinal
\* or index token; with fewer than 2 occurrences it never does
C24_ScanNeedsOrdinalKeyword ==
  Returned =>
    \A row \in ScannedLists :
      LET occurring == OccurringKeywords(row)
      IN  /\ StrategyA(row) <=>
               \/ Cardinality(occurring) >= 3
               \/ /\ Cardinality(occurring) >= 2
                  /\ occurring \cap OrdinalKeywords # {}
          /\ Cardinality(occurring) < 2 => ~ StrategyA(row)

\* C24 amended: with 2 occurring keywords the row is a header when its text
\* contains "lp" or "nr", which need not be part of an occurring keyword
C24_ScanNeedsOrdinalText ==
  Returned =>
    \A row \in ScannedLists :
      LET occurring == OccurringKeywords(row)
      IN  /\ StrategyA(row) <=>
               \/ Cardinality(occurring) >= 3
               \/ /\ Cardinality(occurring) >= 2
                  /\ \/ includes(ScannedText(row), <<"l", "p">>)
                     \/ includes(ScannedText(row), <<"n", "r">>)
          /\ Cardinality(occurring) < 2 => ~ StrategyA(row)

\* a line with two keywords and the word "Nr" was purged from its table as a
\* header, and the line is no header against the headers of the table
C24_Witness ==
  /\ Returned
  /\ Len(rawTables) = 1
  /\ rawTables[1].rows = <<rowCs, rowNrHeader>>
  /\ Cardinality(OccurringKeywords(rowNrHeader)) = 2
  /\ ~ StrategyB(rowNrHeader, rawTables[1].headers)
  /\ Len(processedTables[1].rows) = 1

-----------------------------------------------------------------------------
(* Properties of the comparison with the headers                           *)

\* a string without white space and punctuation, in lower case
Normalised(text) ==
  LET lower == toLowerCase(text)
      kept == {i \in DOMAIN lower : lower[i] \notin WhiteSpace \cup {".", ",", ";", ":"}}
      nth(n) == CHOOSE i \in kept : Cardinality({j \in kept : j <= i}) = n
  IN  [n \in 1..Cardinality(kept) |-> lower[nth(n)]]

\* a is a substring of b
Within(a, b) ==
  \E start \in 0..(Len(b) - Len(a)) : SubSeq(b, start + 1, start + Len(a)) = a

\* the score of a position in tenths, for the normalised header h and cell r
PositionScore(h, r) ==
  IF h = r THEN 10
  ELSE IF (Len(h) > 3 \/ Len(r) > 3) /\ (Within(h, r) \/ Within(r, h)) THEN 8
  ELSE 0

\* the positions (1-based) that are compared: those both lists have, without
\* the ones where both normalised strings are empty
ComparedPositions(row, reference) ==
  {i \in DOMAIN row \cap DOMAIN reference :
     Normalised(reference[i]) # <<>> \/ Normalised(row[i]) # <<>>}

RECURSIVE ScoreSum(_, _, _)
ScoreSum(row, reference, positions) ==
  IF positions = {} THEN 0
  ELSE LET i == CHOOSE p \in positions : TRUE
       IN  PositionScore(Normalised(reference[i]), Normalised(row[i]))
             + ScoreSum(row, reference, positions \ {i})

\* the score per compared position exceeds 0.5
ScoresAsHeader(row, reference) ==
  LET positions == ComparedPositions(row, reference)
  IN  /\ reference # <<>>
      /\ positions # {}
      /\ ScoreSum(row, reference, positions) > 5 * Cardinality(positions)

\* the header lists a row is compared with
ReferenceLists == {rawTables[k].headers : k \in DOMAIN rawTables}

\* C25: against a non-empty reference header list a row is judged a header by
\* the comparison exactly when the sum of the scores of the positions divided
\* by the number of compared positions exceeds 0.5; the positions run up to
\* the shorter of the two lengths, a position where both normalised strings are
\* empty is skipped and not counted, equality scores 1.0 and containment with
\* either string longer than 3 characters 0.8; isHeaderRow is true iff the
\* keyword scan or the comparison says so.
C25_ComparisonExceedsHalf ==
  Returned =>
    \A row \in ScannedLists : \A reference \in ReferenceLists :
      /\ StrategyB(row, reference) <=> ScoresAsHeader(row, reference)
      /\ isHeaderRow(row, reference) <=>
           (StrategyA(row) \/ ScoresAsHeader(row, reference))

\* a row was purged that the comparison alone judges a header, on containment
\* in headers longer than 3 characters
C25_Witness ==
  /\ Returned
  /\ Len(rawTables) = 1
  /\ rawTables[1].headers = headersFull
  /\ rawTables[1].rows = <<rowCs, rowOrdinalOnly>>
  /\ ~ StrategyA(rowOrdinalOnly)
  /\ ScoresAsHeader(rowOrdinalOnly, headersFull)
  /\ ScoreSum(rowOrdinalOnly, headersFull, 1..4) = 24
  /\ ~ Flag(options, "removeZeroPriceRows")
  /\ Len(processedTables[1].rows) = 1

-----------------------------------------------------------------------------
(* Properties of merging again                                             *)

\* the table that follows joins the table before it
JoinsTheTableBefore(tables, k) == MayJoin(tables[k], tables[k + 1])

\* C26: mergeCompatibleTables is idempotent: merging the merged output again
\* returns the same list of logical tables (count, headers, titles and rows);
\* no two adjacent output tables are compatible with each other.
C26_MergeIsIdempotent ==
  Returned =>
    LET once == mergeCompatibleTables(rawTables)
    IN  /\ mergeCompatibleTables(once) = once
        /\ \A k \in 1..(Len(once) - 1) : ~ JoinsTheTableBefore(once, k)

\* three fragments became one logical table, the third one by the headers of
\* the first and not by those of the second
C26_Witness ==
  /\ Returned
  /\ rawTables = tableOverThreePages
  /\ ~ MayJoin(rawTables[2], rawTables[3])
  /\ Len(mergeCompatibleTables(rawTables)) = 1
  /\ Len(mergeCompatibleTables(rawTables)[1].rows) = 3
  /\ Len(processedTables) = 1

-----------------------------------------------------------------------------
(* Properties of empty cells in the comparison with the headers            *)

\* the positions (0-based) where the row has no text and the headers have
EmptyUnderHeader(row, reference) ==
  {i \in 0..(Min(Len(row), Len(reference)) - 1) :
     /\ normalizeText(CellAt(row, i)) = <<>>
     /\ normalizeText(CellAt(reference, i)) # <<>>}

\* no cell with text equals, contains or is contained in the header above it
NoTextMatches(row, reference) ==
  \A i \in DOMAIN row \cap DOMAIN reference :
    Normalised(row[i]) # <<>>
      => PositionScore(Normalised(reference[i]), Normalised(row[i])) = 0

\* C27: in the comparison with the headers an empty row cell never counts as a
\* match: a position where the normalised row cell is empty and the header is
\* not adds 0 to the score, so a data row whose non-empty cells neither equal
\* nor contain nor are contained in the header at their position is not judged
\* a header and is not dropped by the header purge.
C27_EmptyCellNeverMatches ==
  Returned =>
    \A k \in DOMAIN rawTables :
      LET reference == rawTables[k].headers
          rows == rawTables[k].rows
      IN  \A r \in DOMAIN rows :
            /\ \A i \in EmptyUnderHeader(rows[r], reference) :
                 matchScoreAt(rows[r], reference, i) = 0
            /\ (NoTextMatches(rows[r], reference) /\ ~ StrategyA(rows[r]))
                 => /\ ~ StrategyB(rows[r], reference)
                    /\ rows[r] \in Range(purgeHeaderRows(rows, reference))

-----------------------------------------------------------------------------
(* Properties of the status of the App                                     *)

IsNull(field) == field = <<>>

\* what each status says about the other fields
StatusShape ==
  /\ app.status \in ProcessingStatus \ {"UPLOADING"}
  /\ app.status = "SUCCESS"
       => ~ IsNull(app.rawResult) /\ ~ IsNull(app.result) /\ ~ IsNull(app.totals)
  /\ app.status = "ERROR"
       => /\ ~ IsNull(app.errorMsg)
          /\ IsNull(app.rawResult) /\ IsNull(app.result) /\ IsNull(app.totals)
  /\ app.status = "IDLE"
       => /\ IsNull(app.rawResult) /\ IsNull(app.result) /\ IsNull(app.totals)
          /\ IsNull(app.errorMsg)
          /\ app.fileName = ""

\* a step to the status IDLE is a reset: it leaves the settings as they are
ResetKeepsOptions ==
  (app.status # "IDLE" /\ app'.status = "IDLE") => app'.options = app.options

\* C28: after every handler and effect, status SUCCESS implies that rawResult,
\* result and totals are not null; status ERROR that errorMsg is not null and
\* rawResult, result and totals are; status IDLE that rawResult, result, totals
\* and errorMsg are null and fileName is empty; the status is never UPLOADING;
\* and handleReset leaves every processing option unchanged.
C28_StatusShapeAndResetKeepsOptions == []StatusShape /\ [][ResetKeepsOptions]_vars

\* the App was reset after a setting was changed: it is idle with that setting
C28_Witness ==
  /\ app.status = "IDLE"
  /\ app.options # initialOptions
  /\ IsNull(app.rawResult) /\ app.fileName = ""

-----------------------------------------------------------------------------
(* Properties of the extraction in flight                                  *)

\* an extraction is pending exactly while the status is PROCESSING
OnePendingWhileProcessing ==
  /\ app.pending \in {0, 1}
  /\ app.pending = 1 <=> app.status = "PROCESSING"

\* the steps into and out of PROCESSING, and the steps while it lasts
ProcessingSteps ==
  /\ (app.status # "PROCESSING" /\ app'.status = "PROCESSING")
       => app.status = "IDLE" /\ app.pending = 0 /\ app'.pending = 1
  /\ (app.status = "PROCESSING" /\ app' # app)
       => /\ app'.status \in {"SUCCESS", "ERROR"}
          /\ app'.pending = 0
          /\ app'.fileName = app.fileName
          /\ app'.options = app.options
          /\ app'.status = "SUCCESS" => ~ IsNull(app'.rawResult)
  /\ app'.pending < app.pending => app.status = "PROCESSING"

\* C29: at most one extraction is in flight and its outcome is applied to the
\* session that started it: a file is selected in status IDLE only, PROCESSING
\* is left only to SUCCESS (resolved) or ERROR (rejected), and neither
\* handleReset nor a second handleFileSelected runs while an extraction is
\* pending.
C29_OneExtractionInFlight == []OnePendingWhileProcessing /\ [][ProcessingSteps]_vars

\* a second session is processing its document, after a first one in which a
\* setting was changed
C29_Witness ==
  /\ app.status = "PROCESSING"
  /\ app.pending = 1
  /\ app.options # initialOptions
  /\ IsNull(app.rawResult) /\ IsNull(app.result)

-----------------------------------------------------------------------------
(* Properties of the totals of an edited result                            *)

\* the logical table behind the displayed table t was priced
PricedAt(t) ==
  ~ isUnpriced(classifyColumns(mergeCompatibleTables(app.rawResult[1].tables)[t]))

\* the price columns of a displayed table are on the page: the table has no
\* header list, and so no button that deletes a column, or both labels are
\* among its headers
PriceColumnsShown(table) ==
  \/ table.headers = <<>>
  \/ {nettoHeaderLabel, bruttoHeaderLabel} \subseteq Range(table.headers)

\* the place (1-based) of the net or gross cell in a row of a priced table
PriceCellPlace(table, row, label, fromEnd) ==
  IF table.headers = <<>> THEN Len(row) - fromEnd
  ELSE CHOOSE i \in DOMAIN table.headers : table.headers[i] = label

\* the amount, in grosz, a displayed cell shows
ShownAmount(row, place) ==
  IF place \in DOMAIN row THEN cellAmount(row, place - 1) ELSE 0

RECURSIVE DisplayedSum(_, _, _, _)
DisplayedSum(table, r, label, fromEnd) ==
  IF r > Len(table.rows) THEN 0
  ELSE ShownAmount(table.rows[r], PriceCellPlace(table, table.rows[r], label, fromEnd))
         + DisplayedSum(table, r + 1, label, fromEnd)

RECURSIVE DisplayedTotal(_, _, _, _)
DisplayedTotal(tables, t, label, fromEnd) ==
  IF t > Len(tables) THEN 0
  ELSE (IF PricedAt(t) THEN DisplayedSum(tables[t], 1, label, fromEnd) ELSE 0)
         + DisplayedTotal(tables, t + 1, label, fromEnd)

\* a result with deletions that were not recomputed away
EditedResultShown ==
  /\ ResultShown
  /\ app.edits > 0
  /\ \A t \in DOMAIN app.result[1].tables :
       PricedAt(t) => PriceColumnsShown(app.result[1].tables[t])

\* C30: after deletions of rows and columns in a processed result totalNetto is
\* the sum of the net price cells and totalBrutto the sum of the gross price
\* cells of the rows still present in all displayed tables, every priced table
\* included, whether or not it has a header list.
C30_TotalsAreSumsOfDisplayedPrices ==
  EditedResultShown =>
    LET tables == app.result[1].tables
    IN  /\ app.totals[1].totalNetto = DisplayedTotal(tables, 1, nettoHeaderLabel, 1)
        /\ app.totals[1].totalBrutto = DisplayedTotal(tables, 1, bruttoHeaderLabel, 0)

====
